---- MODULE Spec2Model ----
(***************************************************************************)
(* Model of the axon Ethereum-compatibility layer:                         *)
(*   - protocol/src/codec/transaction.rs : RLP codec of                    *)
(*     UnverifiedTransaction / SignedTransaction                           *)
(*   - core/api/src/jsonrpc/web3_types.rs : request-value decoders         *)
(*                                                                         *)
(* Every operation of the program is a pure function.  The state machine   *)
(* records one call at a time: the operation (op), its input (arg), the    *)
(* bytes in flight between an encode and the decode that follows it        *)
(* (wire), and the value or error the call returned (res).                 *)
(***************************************************************************)
EXTENDS Integers, Sequences, FiniteSets, TLC

VARIABLES op, arg, wire, res

vars == <<op, arg, wire, res>>

(***************************************************************************)
(* Result<T, E>                                                            *)
(***************************************************************************)
Ok(v) == [ok |-> TRUE, val |-> v, err |-> "none"]

Err(e) == [ok |-> FALSE, val |-> <<>>, err |-> e]

(***************************************************************************)
(* Bounds of the model                                                     *)
(***************************************************************************)
\* longest access list enumerated exhaustively
MaxAccessList == 3

\* length of the one long access list ("many" entries)
ManyEntries == 16

\* most entries of a hand-crafted (possibly malformed) access list
MaxCraftEntries == 3

\* most items of a hand-crafted outer list
MaxCraftItems == 14

(***************************************************************************)
(* Byte strings.  A byte is a number in 0..255, a byte string a sequence.  *)
(***************************************************************************)
RECURSIVE ToBE(_)
\* big-endian bytes of n without leading zero bytes (0 is the empty string)
ToBE(n) == IF n = 0 THEN <<>> ELSE Append(ToBE(n \div 256), n % 256)

RECURSIVE FromBE(_)
FromBE(bs) ==
    IF bs = <<>> THEN 0
    ELSE FromBE(SubSeq(bs, 1, Len(bs) - 1)) * 256 + bs[Len(bs)]

Fill(n, b) == [i \in 1..n |-> b]

RECURSIVE Concat(_)
Concat(ss) == IF ss = <<>> THEN <<>> ELSE Head(ss) \o Concat(Tail(ss))

(***************************************************************************)
(* rlp::RlpStream as used by the encoders                                  *)
(***************************************************************************)
\* BasicEncoder::encode_value: the RLP form of a byte string
encode_value(bs) ==
    IF Len(bs) = 0 THEN <<128>>
    ELSE IF Len(bs) = 1 /\ bs[1] < 128 THEN bs
    ELSE IF Len(bs) <= 55 THEN <<128 + Len(bs)>> \o bs
    ELSE LET lb == ToBE(Len(bs)) IN <<183 + Len(lb)>> \o lb \o bs

\* BasicEncoder::insert_list_payload: the header of a list of `len` payload bytes
list_header(len) ==
    IF len <= 55 THEN <<192 + len>>
    ELSE LET lb == ToBE(len) IN <<247 + Len(lb)>> \o lb

\* RlpStream::new
RlpStream_new ==
    [buffer |-> <<>>, unfinished_lists |-> <<>>,
     finished_list |-> FALSE, panicked |-> FALSE]

RECURSIVE note_appended(_)
\* RlpStream::note_appended(1): count one item in the innermost open list and
\* close every list that became full.  A panic ("You cannot append more items
\* than you expect!") aborts the encoding: a panicked stream takes no more input.
note_appended(s) ==
    IF s.panicked \/ s.unfinished_lists = <<>> THEN s
    ELSE LET back == Len(s.unfinished_lists)
             x    == s.unfinished_lists[back]
             cur  == x.current + 1
         IN IF cur > x.max THEN [s EXCEPT !.panicked = TRUE]
            ELSE IF cur = x.max
            THEN LET len    == Len(s.buffer) - x.position
                     popped == [s EXCEPT
                                  !.unfinished_lists = SubSeq(@, 1, back - 1),
                                  !.buffer = SubSeq(@, 1, x.position)
                                             \o list_header(len)
                                             \o SubSeq(@, x.position + 1, Len(@))]
                 IN [note_appended(popped) EXCEPT !.finished_list = TRUE]
            ELSE [s EXCEPT !.unfinished_lists[back].current = cur,
                           !.finished_list = FALSE]

\* RlpStream::begin_list(len)
begin_list(s, len) ==
    IF s.panicked THEN s
    ELSE IF len = 0
    THEN [note_appended([s EXCEPT !.buffer = @ \o <<192>>])
            EXCEPT !.finished_list = TRUE]
    ELSE [s EXCEPT !.finished_list = FALSE,
                   !.unfinished_lists =
                       Append(@, [position |-> Len(s.buffer), current |-> 0, max |-> len])]

\* RlpStream::append of a value whose rlp_append is encoder().encode_value(bytes)
append_value(s, bs) ==
    IF s.panicked THEN s
    ELSE note_appended([s EXCEPT !.finished_list = FALSE,
                            !.buffer = @ \o encode_value(bs)])

\* RlpStream::append, first half: clear finished_list before value.rlp_append
append_enter(s) == [s EXCEPT !.finished_list = FALSE]

\* RlpStream::append, second half: count the item unless rlp_append closed a list
append_leave(s) == IF s.finished_list THEN s ELSE note_appended(s)

\* RlpStream::out: the buffer; panics while a list is still open
out(s) ==
    IF s.panicked \/ s.unfinished_lists # <<>> THEN Err("panic")
    ELSE Ok(s.buffer)

(***************************************************************************)
(* Values of the protocol types                                            *)
(*   Transaction            [nonce, max_priority_fee_per_gas, gas_price,   *)
(*                           gas_limit, action, value, data, access_list]  *)
(*   AccessListItem         [address, slots]                               *)
(*   SignatureComponents    [standard_v, r, s]                             *)
(*   UnverifiedTransaction  [unsigned, hash, signature, chain_id]          *)
(*   SignedTransaction      [transaction, sender, public]                  *)
(* Option<T> is [some |-> BOOLEAN, v |-> T]; integers are naturals, hashes *)
(* and addresses are byte strings of their fixed width.                    *)
(***************************************************************************)
H160_LEN == 20

H256_LEN == 32

H512_LEN == 64

Some(v) == [some |-> TRUE, v |-> v]

\* Option::None of SignatureComponents
NoSignature == [some |-> FALSE, v |-> [standard_v |-> 0, r |-> <<>>, s |-> <<>>]]

\* Option::None of Public
NoPublic == [some |-> FALSE, v |-> <<>>]

\* TransactionAction::Create and TransactionAction::Call(address)
Create == [call |-> FALSE, address |-> <<>>]

Call(a) == [call |-> TRUE, address |-> a]

\* H256::default(), the placeholder decode stores before hash() runs.  The
\* hash field is never written to the wire; a computed hash is kept as the
\* digest of its preimage.
H256_default == [keccak |-> FALSE, pre |-> <<>>]

\* Hasher::digest: keccak-256, collision free
digest(bytes) == [keccak |-> TRUE, pre |-> bytes]

(***************************************************************************)
(* Encodable for the field types                                           *)
(***************************************************************************)
\* impl Encodable for u8 / u64 / U256: big-endian without leading zeros
uint_bytes(n) == ToBE(n)

\* impl Encodable for TransactionAction: the address, or the empty string
action_bytes(a) == IF a.call THEN a.address ELSE <<>>

\* impl Encodable for SignatureComponents
SignatureComponents_rlp_append(sig, s) ==
    append_value(append_value(append_value(s, uint_bytes(sig.standard_v)), sig.r), sig.s)

RECURSIVE append_slots(_, _, _)
\* for storage_key in access.slots.iter() { s.append(storage_key); }
append_slots(s, slots, i) ==
    IF s.panicked \/ i > Len(slots) THEN s
    ELSE append_slots(append_value(s, slots[i]), slots, i + 1)

RECURSIVE append_access_list(_, _, _)
\* for access in self.unsigned.access_list.iter() { ... }
append_access_list(s, al, i) ==
    IF s.panicked \/ i > Len(al) THEN s
    ELSE LET s1 == begin_list(s, 2)
             s2 == append_value(s1, al[i].address)
             s3 == begin_list(s2, Len(al[i].slots))
             s4 == append_slots(s3, al[i].slots, 1)
         IN append_access_list(s4, al, i + 1)

\* a plausible slip: the list is always declared with twelve items
rlp_stream_len_Always12(utx) == 12

\* let rlp_stream_len = if self.signature.is_some() { 12 } else { 9 }
rlp_stream_len(utx) == IF utx.signature.some THEN 12 ELSE 9

\* the eight scalar fields in front of the access list, in append order
head_fields(utx) ==
    << uint_bytes(utx.chain_id),
       uint_bytes(utx.unsigned.nonce),
       uint_bytes(utx.unsigned.max_priority_fee_per_gas),
       uint_bytes(utx.unsigned.gas_price),
       uint_bytes(utx.unsigned.gas_limit),
       action_bytes(utx.unsigned.action),
       uint_bytes(utx.unsigned.value),
       utx.unsigned.data >>

RECURSIVE append_values(_, _, _)
\* the chain .append(..).append(..) of value fields
append_values(s, fs, i) ==
    IF s.panicked \/ i > Len(fs) THEN s
    ELSE append_values(append_value(s, fs[i]), fs, i + 1)

\* impl Encodable for UnverifiedTransaction: rlp_append
UnverifiedTransaction_rlp_append(utx, s) ==
    LET s1 == begin_list(s, rlp_stream_len(utx))
        s2 == append_values(s1, head_fields(utx), 1)
        s3 == begin_list(s2, Len(utx.unsigned.access_list))
        s4 == append_access_list(s3, utx.unsigned.access_list, 1)
    IN IF utx.signature.some
       THEN SignatureComponents_rlp_append(utx.signature.v, s4)
       ELSE s4

\* impl Encodable for UnverifiedTransaction: rlp_bytes
UnverifiedTransaction_rlp_bytes(utx) ==
    LET r == out(UnverifiedTransaction_rlp_append(utx, RlpStream_new))
    IN IF r.ok THEN Ok(<<2>> \o r.val) ELSE r

\* impl Encodable for Option<Public> (rlp crate): a list of 0 or 1 items
Option_rlp_append(o, s) ==
    IF o.some THEN append_value(begin_list(s, 1), o.v)
    ELSE begin_list(s, 0)

\* impl Encodable for SignedTransaction: rlp_append
SignedTransaction_rlp_append(stx, s) ==
    LET s1 == begin_list(s, 3)
        s2 == append_leave(UnverifiedTransaction_rlp_append(stx.transaction, append_enter(s1)))
        s3 == append_value(s2, stx.sender)
    IN append_leave(Option_rlp_append(stx.public, append_enter(s3)))

\* a plausible slip: the discriminator is put in front, as rlp_bytes of
\* UnverifiedTransaction does
SignedTransaction_rlp_bytes_Typed(stx) ==
    LET r == out(SignedTransaction_rlp_append(stx, RlpStream_new))
    IN IF r.ok THEN Ok(<<2>> \o r.val) ELSE r

\* Encodable::rlp_bytes, the trait's default, for SignedTransaction
SignedTransaction_rlp_bytes(stx) ==
    out(SignedTransaction_rlp_append(stx, RlpStream_new))

\* UnverifiedTransaction::hash: store the digest of the canonical encoding
\* of the unsigned payload and the chain id
hash(utx) ==
    [utx EXCEPT !.hash =
        digest(UnverifiedTransaction_rlp_bytes([utx EXCEPT !.signature = NoSignature]).val)]

(***************************************************************************)
(* rlp::Rlp as used by the decoders.  An Rlp view is the byte string it    *)
(* looks at.                                                               *)
(***************************************************************************)
\* PayloadInfo::from and BasicDecoder::payload_info: header and value length
\* of the item that starts the bytes
payload_info(bs) ==
    IF bs = <<>> THEN Err("RlpIsTooShort")
    ELSE LET l == bs[1]
             long(base) ==
                 LET header_len == 1 + (l - base)
                     sized(value_len) ==
                         IF value_len <= 55 THEN Err("RlpInvalidIndirection")
                         ELSE Ok([header_len |-> header_len, value_len |-> value_len])
                 IN IF Len(bs) < 2 THEN Err("RlpIsTooShort")
                    ELSE IF bs[2] = 0 THEN Err("RlpDataLenWithZeroPrefix")
                    ELSE IF Len(bs) < header_len THEN Err("RlpIsTooShort")
                    ELSE sized(FromBE(SubSeq(bs, 2, header_len)))
             fits(item) ==
                 IF ~item.ok THEN item
                 ELSE IF item.val.header_len + item.val.value_len <= Len(bs) THEN item
                 ELSE Err("RlpIsTooShort")
         IN fits(IF l <= 127 THEN Ok([header_len |-> 0, value_len |-> 1])
                 ELSE IF l <= 183 THEN Ok([header_len |-> 1, value_len |-> l - 128])
                 ELSE IF l <= 191 THEN long(183)
                 ELSE IF l <= 247 THEN Ok([header_len |-> 1, value_len |-> l - 192])
                 ELSE long(247))

\* Rlp::is_list
is_list(r) == r # <<>> /\ r[1] >= 192

RECURSIVE consume_items(_)
\* the items of a list payload, in order, up to the first that does not parse
\* (RlpIterator stops at the first failing Rlp::at)
consume_items(bs) ==
    IF bs = <<>> THEN <<>>
    ELSE LET split(n) ==
                 <<SubSeq(bs, 1, n)>> \o consume_items(SubSeq(bs, n + 1, Len(bs)))
             next(pi) ==
                 IF ~pi.ok THEN <<>>
                 ELSE split(pi.val.header_len + pi.val.value_len)
         IN next(payload_info(bs))

\* Rlp::iter().collect(): the child views of a list; nothing for a data item
items_of(r) ==
    IF ~is_list(r) THEN <<>>
    ELSE LET payload(pi) ==
                 IF ~pi.ok THEN <<>>
                 ELSE consume_items(SubSeq(r, pi.val.header_len + 1,
                                           pi.val.header_len + pi.val.value_len))
         IN payload(payload_info(r))

\* Rlp::item_count
item_count(r) ==
    IF is_list(r) THEN Ok(Len(items_of(r))) ELSE Err("RlpExpectedToBeList")

\* Rlp::data / BasicDecoder::decode_value: the byte string of a data item
decode_value(r) ==
    IF r = <<>> THEN Err("RlpIsTooShort")
    ELSE LET l == r[1]
             short(last) ==
                 IF Len(r) < last THEN Err("RlpInconsistentLengthAndData")
                 ELSE IF l = 129 /\ r[2] < 128 THEN Err("RlpInvalidIndirection")
                 ELSE Ok(SubSeq(r, 2, last))
             ends(begin, last) ==
                 IF Len(r) < last THEN Err("RlpInconsistentLengthAndData")
                 ELSE Ok(SubSeq(r, begin + 1, last))
             long(begin) ==
                 IF Len(r) < begin THEN Err("RlpInconsistentLengthAndData")
                 ELSE ends(begin, begin + FromBE(SubSeq(r, 2, begin)))
         IN IF l <= 127 THEN Ok(<<l>>)
            ELSE IF l <= 183 THEN short(1 + (l - 128))
            ELSE IF l <= 191 THEN long(1 + (l - 183))
            ELSE Err("RlpExpectedToBeData")

(***************************************************************************)
(* Decodable for the field types                                           *)
(***************************************************************************)
\* impl Decodable for u8
decode_u8(r) ==
    LET of(d) ==
            IF ~d.ok THEN d
            ELSE IF Len(d.val) = 0 THEN Ok(0)
            ELSE IF Len(d.val) = 1
            THEN (IF d.val[1] # 0 THEN Ok(d.val[1]) ELSE Err("RlpInvalidIndirection"))
            ELSE Err("RlpIsTooBig")
    IN of(decode_value(r))

\* impl Decodable for u64 (width 8) and U256 (width 32)
decode_uint(r, width) ==
    LET of(d) ==
            IF ~d.ok THEN d
            ELSE IF Len(d.val) > 0 /\ d.val[1] = 0 THEN Err("RlpInvalidIndirection")
            ELSE IF Len(d.val) <= width THEN Ok(FromBE(d.val))
            ELSE Err("RlpIsTooBig")
    IN of(decode_value(r))

\* impl Decodable for H160 / H256 / H512 (impl_fixed_hash_rlp)
decode_fixed(r, size) ==
    LET of(d) ==
            IF ~d.ok THEN d
            ELSE IF Len(d.val) < size THEN Err("RlpIsTooShort")
            ELSE IF Len(d.val) > size THEN Err("RlpIsTooBig")
            ELSE d
    IN of(decode_value(r))

\* impl Decodable for Bytes
decode_bytes(r) == decode_value(r)

\* impl Decodable for TransactionAction
decode_action(r) ==
    LET call(a) == IF a.ok THEN Ok(Call(a.val)) ELSE a
        of(d) ==
            IF ~d.ok THEN d
            ELSE IF d.val = <<>> THEN Ok(Create)
            ELSE call(decode_fixed(r, H160_LEN))
    IN of(decode_value(r))

\* the position of the first failed result of a sequence, 0 when none failed
first_err(rs) ==
    IF \A i \in 1..Len(rs) : rs[i].ok THEN 0
    ELSE CHOOSE i \in 1..Len(rs) : ~rs[i].ok /\ \A j \in 1..(i - 1) : rs[j].ok

\* the values of a sequence of results, or the first failure among them
collect(rs) ==
    LET at(bad) ==
            IF bad # 0 THEN Err(rs[bad].err)
            ELSE Ok([i \in 1..Len(rs) |-> rs[i].val])
    IN at(first_err(rs))

\* Rlp::as_list::<H256>: every child as an H256; a data item has no children
as_list_H256(r) ==
    LET each(it) == [i \in 1..Len(it) |-> decode_fixed(it[i], H256_LEN)]
    IN collect(each(items_of(r)))

\* a plausible slip: only entries with fewer than two items are refused
decode_access_list_item_AtLeast2(accounts) ==
    LET entry(address, slots) ==
            IF ~address.ok THEN address
            ELSE IF ~slots.ok THEN slots
            ELSE Ok([address |-> address.val, slots |-> slots.val])
        pair(it) == entry(decode_fixed(it[1], H160_LEN), as_list_H256(it[2]))
        counted(n) ==
            IF ~n.ok THEN n
            ELSE IF n.val < 2 THEN Err("Custom(Unknown access list length)")
            ELSE pair(items_of(accounts))
    IN counted(item_count(accounts))

\* one turn of the access-list loop: an entry is a 2-item list [address, slots]
decode_access_list_item(accounts) ==
    LET entry(address, slots) ==
            IF ~address.ok THEN address
            ELSE IF ~slots.ok THEN slots
            ELSE Ok([address |-> address.val, slots |-> slots.val])
        pair(it) == entry(decode_fixed(it[1], H160_LEN), as_list_H256(it[2]))
        counted(n) ==
            IF ~n.ok THEN n
            ELSE IF n.val # 2 THEN Err("Custom(Unknown access list length)")
            ELSE pair(items_of(accounts))
    IN counted(item_count(accounts))

\* a plausible slip: each entry is put in front of the list, not pushed behind
decode_access_list_Reversed(accl_rlp) ==
    LET turned(es) ==
            IF ~es.ok THEN es
            ELSE Ok([i \in 1..Len(es.val) |-> es.val[Len(es.val) + 1 - i]])
        loop(it) == turned(collect([i \in 1..Len(it) |-> decode_access_list_item(it[i])]))
        counted(n) == IF ~n.ok THEN n ELSE loop(items_of(accl_rlp))
    IN counted(item_count(accl_rlp))

\* the access-list loop of decode: fails at the first bad entry
decode_access_list(accl_rlp) ==
    LET loop(it) == collect([i \in 1..Len(it) |-> decode_access_list_item(it[i])])
        counted(n) == IF ~n.ok THEN n ELSE loop(items_of(accl_rlp))
    IN counted(item_count(accl_rlp))

\* decode, lines 77-108: the twelve positional fields, each decoded or failed
decode_fields(it) ==
    << decode_uint(it[1], 8),
       decode_uint(it[2], 32),
       decode_uint(it[3], 32),
       decode_uint(it[4], 32),
       decode_uint(it[5], 32),
       decode_action(it[6]),
       decode_uint(it[7], 32),
       decode_bytes(it[8]),
       decode_access_list(it[9]),
       decode_u8(it[10]),
       decode_fixed(it[11], H256_LEN),
       decode_fixed(it[12], H256_LEN) >>

\* a plausible slip: the three signature items are read and checked, but the
\* struct literal leaves the signature out
decode_utx_Unsigned(f) ==
    [unsigned |-> [nonce |-> f[2],
                   max_priority_fee_per_gas |-> f[3],
                   gas_price |-> f[4],
                   gas_limit |-> f[5],
                   action |-> f[6],
                   value |-> f[7],
                   data |-> f[8],
                   access_list |-> f[9]],
     hash |-> H256_default,
     signature |-> NoSignature,
     chain_id |-> f[1]]

\* decode, lines 110-124: the struct literal utx, its hash the placeholder
decode_utx(f) ==
    [unsigned |-> [nonce |-> f[2],
                   max_priority_fee_per_gas |-> f[3],
                   gas_price |-> f[4],
                   gas_limit |-> f[5],
                   action |-> f[6],
                   value |-> f[7],
                   data |-> f[8],
                   access_list |-> f[9]],
     hash |-> H256_default,
     signature |-> Some([standard_v |-> f[10], r |-> f[11], s |-> f[12]]),
     chain_id |-> f[1]]

\* a plausible slip: at least twelve items are required, not exactly twelve
UnverifiedTransaction_decode_AtLeast12(r) ==
    LET built(f) == IF ~f.ok THEN f ELSE Ok(hash(decode_utx(f.val)))
        counted(n) ==
            IF ~n.ok THEN n
            ELSE IF n.val < 12 THEN Err("RlpIncorrectListLen")
            ELSE built(collect(decode_fields(items_of(r))))
    IN counted(item_count(r))

\* a plausible slip: Ok(utx) is returned without utx.hash()
UnverifiedTransaction_decode_NoHash(r) ==
    LET built(f) == IF ~f.ok THEN f ELSE Ok(decode_utx(f.val))
        counted(n) ==
            IF ~n.ok THEN n
            ELSE IF n.val # 12 THEN Err("RlpIncorrectListLen")
            ELSE built(collect(decode_fields(items_of(r))))
    IN counted(item_count(r))

\* impl Decodable for UnverifiedTransaction: the count check, the fields with
\* `?` on each (the first failure is returned), then Ok(utx.hash())
UnverifiedTransaction_decode(r) ==
    LET built(f) == IF ~f.ok THEN f ELSE Ok(hash(decode_utx(f.val)))
        counted(n) ==
            IF ~n.ok THEN n
            ELSE IF n.val # 12 THEN Err("RlpIncorrectListLen")
            ELSE built(collect(decode_fields(items_of(r))))
    IN counted(item_count(r))

\* a plausible slip: a present public key is dropped
decode_Option_Public_Dropped(r) ==
    LET counted(n) ==
            IF ~n.ok THEN n
            ELSE IF n.val = 0 \/ n.val = 1 THEN Ok(NoPublic)
            ELSE Err("RlpIncorrectListLen")
    IN counted(item_count(r))

\* impl Decodable for Option<Public> (rlp crate)
decode_Option_Public(r) ==
    LET some(p) == IF p.ok THEN Ok(Some(p.val)) ELSE p
        counted(n) ==
            IF ~n.ok THEN n
            ELSE IF n.val = 0 THEN Ok(NoPublic)
            ELSE IF n.val = 1 THEN some(decode_fixed(items_of(r)[1], H512_LEN))
            ELSE Err("RlpIncorrectListLen")
    IN counted(item_count(r))

\* impl Decodable for SignedTransaction, entered through rlp::decode
SignedTransaction_decode(r) ==
    LET built(f) ==
            IF ~f.ok THEN f
            ELSE Ok([transaction |-> f.val[1], sender |-> f.val[2], public |-> f.val[3]])
        fields(it) ==
            IF Len(it) # 3 THEN Err("RlpInconsistentLengthAndData")
            ELSE built(collect(<< UnverifiedTransaction_decode(it[1]),
                                  decode_fixed(it[2], H160_LEN),
                                  decode_Option_Public(it[3]) >>))
    IN IF r = <<>> \/ ~is_list(r) THEN Err("RlpInconsistentLengthAndData")
       ELSE fields(items_of(r))

(***************************************************************************)
(* Inputs of the codec                                                     *)
(***************************************************************************)
Address(b) == Fill(H160_LEN, b)

H256(b) == Fill(H256_LEN, b)

Public(b) == Fill(H512_LEN, b)

\* no slot, one slot, two slots in either order
SlotLists == {<<>>, <<H256(170)>>, <<H256(170), H256(0)>>, <<H256(0), H256(170)>>}

AccessListItems == {[address |-> Address(204), slots |-> sl] : sl \in SlotLists}

\* entry i of the long access list: i - 1 slots, at most three
ManyItem(i) == [address |-> Address(i), slots |-> [j \in 1..((i - 1) % 4) |-> H256(i + j)]]

AccessLists ==
    UNION {[1..k -> AccessListItems] : k \in 0..MaxAccessList}
    \cup {[i \in 1..ManyEntries |-> ManyItem(i)]}

\* <<nonce, max_priority_fee_per_gas, gas_price, gas_limit, value>>
FeeProfiles ==
    { <<1, 1, 1, 1, 1>>, <<0, 1, 127, 128, 255>>,
      <<256, 65535, 1000000, 0, 2>>, <<128, 3, 0, 21000, 65536>> }

Actions == {Create, Call(Address(141)), Call(Address(0))}

Datas == {<<>>, <<0>>, <<127>>, <<128>>, Fill(32, 96), Fill(56, 1)}

ChainIds == {0, 5, 1337}

Signatures ==
    { NoSignature,
      Some([standard_v |-> 4, r |-> H256(0), s |-> H256(0)]),
      Some([standard_v |-> 0, r |-> H256(85), s |-> H256(51)]),
      Some([standard_v |-> 1, r |-> H256(51), s |-> H256(85)]) }

Transaction(p, a, d, al) ==
    [nonce |-> p[1], max_priority_fee_per_gas |-> p[2], gas_price |-> p[3],
     gas_limit |-> p[4], action |-> a, value |-> p[5], data |-> d, access_list |-> al]

\* a struct literal with the placeholder hash, as in mock_unverfied_tx before .hash()
UnverifiedTransaction(tx, c, sig) ==
    [unsigned |-> tx, hash |-> H256_default, signature |-> sig, chain_id |-> c]

\* the literals the model encodes: every scalar field varied with an empty
\* access list, and every access list with the mock transaction's scalars
UtxLiterals ==
    { UnverifiedTransaction(Transaction(p, a, d, <<>>), c, sig) :
        p \in FeeProfiles, a \in Actions, d \in {<<>>, <<128>>, Fill(56, 1)},
        c \in {5}, sig \in Signatures }
    \cup { UnverifiedTransaction(Transaction(<<1, 1, 1, 1, 1>>, Create, d, <<>>), c, sig) :
        d \in Datas, c \in ChainIds, sig \in Signatures }
    \cup { UnverifiedTransaction(Transaction(<<1, 1, 1, 1, 1>>, Create, Fill(32, 96), al), 5, sig) :
        al \in AccessLists,
        sig \in {NoSignature, Some([standard_v |-> 1, r |-> H256(51), s |-> H256(85)])} }

\* with the hash field computed by hash(), as mock_unverfied_tx does, or (for
\* the transactions without access list) left at the placeholder
UnverifiedTransactions ==
    {hash(u) : u \in UtxLiterals}
    \cup {u \in UtxLiterals : u.unsigned.access_list = <<>>}

SignedTransactions ==
    { [transaction |-> u, sender |-> a, public |-> pk] :
        u \in { x \in UnverifiedTransactions :
                  x.unsigned.data \in {<<>>, Fill(32, 96)}
                  /\ x.unsigned.action = Create /\ x.chain_id = 5
                  /\ Len(x.unsigned.access_list) <= 1 },
        a \in {Address(0), Address(9)},
        pk \in {NoPublic, Some(Public(7))} }

(***************************************************************************)
(* The calls                                                               *)
(***************************************************************************)
Init ==
    /\ op = "init"
    /\ arg = <<>>
    /\ wire = <<>>
    /\ res = Ok(<<>>)

\* utx.rlp_bytes()
EncodeUnverified ==
    /\ op = "init"
    /\ \E utx \in UnverifiedTransactions :
          LET e == UnverifiedTransaction_rlp_bytes(utx)
          IN /\ op' = "utx_rlp_bytes"
             /\ arg' = utx
             /\ wire' = e.val
             /\ res' = e

\* UnverifiedTransaction::decode(&Rlp::new(&raw[1..])), as test_decode_unsigned_tx
DecodeUnverified ==
    /\ op = "utx_rlp_bytes"
    /\ res.ok
    /\ op' = "utx_decode"
    /\ res' = UnverifiedTransaction_decode(Tail(wire))
    /\ UNCHANGED <<arg, wire>>

\* stx.rlp_bytes()
EncodeSigned ==
    /\ op = "init"
    /\ \E stx \in SignedTransactions :
          LET e == SignedTransaction_rlp_bytes(stx)
          IN /\ op' = "stx_rlp_bytes"
             /\ arg' = stx
             /\ wire' = e.val
             /\ res' = e

\* rlp::decode::<SignedTransaction>(&encode), as test_signed_tx_codec
DecodeSigned ==
    /\ op = "stx_rlp_bytes"
    /\ res.ok
    /\ op' = "stx_decode"
    /\ res' = SignedTransaction_decode(wire)
    /\ UNCHANGED <<arg, wire>>

(***************************************************************************)
(* Hand-made wire bodies for decode: outer lists of any length, fields     *)
(* that do not decode, access-list entries of any item count.  They are    *)
(* assembled item by item, without the stream encoder.                     *)
(***************************************************************************)
\* a list item holding the given encoded items
WrapList(its) == list_header(Len(Concat(its))) \o Concat(its)

\* what an access-list entry of each kind holds:
\*   1, 2, 3: a list of that many items, [address, [slot], extra] cut short
\*   0:       a 2-item list whose address is one byte short
EntryKinds == {0, 1, 2, 3}

CraftEntry(kind) ==
    IF kind = 0
    THEN WrapList(<<encode_value(Fill(H160_LEN - 1, 204)), WrapList(<<>>)>>)
    ELSE WrapList(SubSeq(<< encode_value(Address(204)),
                            WrapList(<<encode_value(H256(170))>>),
                            encode_value(<<1>>) >>, 1, kind))

\* an item no field decoder accepts at position i (1-based): a data item where
\* the access list is due, an empty list elsewhere
BadItem(i) == IF i = 9 THEN <<128>> ELSE <<192>>

\* a craft c is [n, bad, entries]: the outer list has n items; item `bad`
\* (0: none) does not decode; the access list holds entries of these kinds
CraftItems(c) ==
    LET good == << encode_value(uint_bytes(5)), encode_value(uint_bytes(1)),
                   encode_value(uint_bytes(1)), encode_value(uint_bytes(1)),
                   encode_value(uint_bytes(1)), encode_value(action_bytes(Create)),
                   encode_value(uint_bytes(1)), encode_value(Fill(32, 96)),
                   WrapList([k \in 1..Len(c.entries) |-> CraftEntry(c.entries[k])]),
                   encode_value(uint_bytes(1)), encode_value(H256(51)),
                   encode_value(H256(85)) >>
    IN [i \in 1..c.n |->
          IF i = c.bad THEN BadItem(i)
          ELSE IF i <= 12 THEN good[i]
          ELSE encode_value(H256(255))]

CraftBytes(c) == WrapList(CraftItems(c))

EntrySeqs == UNION {[1..k -> EntryKinds] : k \in 0..MaxCraftEntries}

Crafts ==
    { [n |-> n, bad |-> b, entries |-> es] :
        n \in 0..MaxCraftItems, b \in {0, 1, 2, 9, 12}, es \in {<<>>, <<2>>, <<1>>} }
    \cup { [n |-> 12, bad |-> b, entries |-> es] :
        b \in {0, 2, 8, 10}, es \in EntrySeqs }

\* a raw transaction arriving from outside: discriminator byte, then the body
ReceiveRaw ==
    /\ op = "init"
    /\ \E c \in Crafts :
          /\ c.bad <= c.n
          /\ op' = "raw"
          /\ arg' = c
          /\ wire' = <<2>> \o CraftBytes(c)
          /\ res' = Ok(<<>>)

\* UnverifiedTransaction::decode(&Rlp::new(&raw[1..])) on the raw bytes
DecodeRaw ==
    /\ op = "raw"
    /\ op' = "raw_decode"
    /\ res' = UnverifiedTransaction_decode(Tail(wire))
    /\ UNCHANGED <<arg, wire>>

(***************************************************************************)
(* Web3Transaction::create (core/api/src/jsonrpc/web3_types.rs)            *)
(*                                                                         *)
(* The view keeps the fields create fills from the transaction, from       *)
(* constants and by plain copies of the receipt.  raw, input, to,          *)
(* contract_address and creates go through conversions of protocol::types  *)
(* (Hex::encode, get_to, Into) and are left out of the record.             *)
(***************************************************************************)
RECURSIVE U256_from_slice(_)
\* U256::from(&[u8]): the big-endian bytes as a number, kept as its bytes
\* without leading zeros (U256::default() is the empty sequence)
U256_from_slice(bytes) ==
    IF bytes = <<>> THEN <<>>
    ELSE IF Head(bytes) = 0 THEN U256_from_slice(Tail(bytes))
    ELSE bytes

\* max_fee_per_gas: U256::from(1337u64)
MAX_FEE_PER_GAS == 1337

\* type_: Some(0x02u64.into())
TX_TYPE == 2

\* Web3Transaction::create: the struct literal, then standard_v, r and s
\* overwritten when the signature is present
Web3Transaction_create(receipt, stx) ==
    LET signature == stx.transaction.signature
    IN [ block_number             |-> receipt.block_number,
         block_hash               |-> receipt.block_hash,
         from                     |-> receipt.sender,
         cumulative_gas_used      |-> receipt.used_gas,
         effective_gas_price      |-> receipt.used_gas,
         public_key               |-> stx.public,
         gas                      |-> receipt.used_gas,
         gas_price                |-> stx.transaction.unsigned.gas_price,
         max_fee_per_gas          |-> MAX_FEE_PER_GAS,
         max_priority_fee_per_gas |-> stx.transaction.unsigned.max_priority_fee_per_gas,
         hash                     |-> receipt.tx_hash,
         nonece                   |-> stx.transaction.unsigned.value,
         transaction_index        |-> Some(receipt.tx_index),
         value                    |-> stx.transaction.unsigned.value,
         type_                    |-> Some(TX_TYPE),
         access_list              |-> Some(stx.transaction.unsigned.access_list),
         chain_id                 |-> Some(stx.transaction.chain_id),
         standard_v               |-> Some(IF signature.some THEN signature.v.standard_v ELSE 0),
         r                        |-> IF signature.some THEN U256_from_slice(signature.v.r)
                                      ELSE <<>>,
         s                        |-> IF signature.some THEN U256_from_slice(signature.v.s)
                                      ELSE <<>> ]

\* the receipts of a transaction, as far as create reads them
Receipts ==
    { [block_number |-> n, block_hash |-> H256(17), sender |-> Address(9),
       used_gas |-> g, tx_hash |-> H256(34), tx_index |-> n] :
        n \in {0, 7}, g \in {21000} }

\* a transaction and its receipt are turned into the JSON view
CreateWeb3Transaction ==
    /\ op = "init"
    /\ \E receipt \in Receipts, stx \in SignedTransactions :
          /\ op' = "Web3Transaction_create"
          /\ arg' = [receipt |-> receipt, stx |-> stx]
          /\ res' = Ok(Web3Transaction_create(receipt, stx))
          /\ UNCHANGED wire

(***************************************************************************)
(* PeerTag (protocol/src/traits/network.rs)                                *)
(*                                                                         *)
(* A tag is [kind, until, s]: until is read for Ban only, s for Custom     *)
(* only.                                                                   *)
(***************************************************************************)
PeerTag_Consensus == [kind |-> "Consensus", until |-> 0, s |-> ""]

PeerTag_AlwaysAllow == [kind |-> "AlwaysAllow", until |-> 0, s |-> ""]

\* PeerTag::ban(until)
PeerTag_ban(until) == [kind |-> "Ban", until |-> until, s |-> ""]

\* PeerTag::ban_key()
PeerTag_ban_key == PeerTag_ban(0)

\* PeerTag::Custom(String), the public variant constructor
PeerTag_Custom(str) == [kind |-> "Custom", until |-> 0, s |-> str]

\* PeerTag::custom: the three reserved names give None
PeerTag_custom(s) ==
    IF s \in {"consensus", "always_allow", "ban"} THEN [some |-> FALSE, v |-> <<>>]
    ELSE Some(PeerTag_Custom(s))

\* PeerTag::str
PeerTag_str(self) ==
    IF self.kind = "Consensus" THEN "consensus"
    ELSE IF self.kind = "AlwaysAllow" THEN "always_allow"
    ELSE IF self.kind = "Ban" THEN "ban"
    ELSE self.s

\* a plausible slip: #[derive(PartialEq)], which compares variant and fields
PeerTag_eq_Derived(self, other) == self = other

\* impl PartialEq for PeerTag
PeerTag_eq(self, other) == PeerTag_str(self) = PeerTag_str(other)

\* impl Hash for PeerTag: what the Hasher is fed, the string and the 0xff
\* that Hash for str writes behind it
PeerTag_hash(self) == <<PeerTag_str(self), 255>>

\* largest ban timestamp
MaxUntil == 3

\* names given to custom and to the Custom constructor: the reserved names,
\* the Display texts of the built-in tags, and free names
TagStrings ==
    { "consensus", "always_allow", "ban", "always allow", "banned, until 0",
      "Consensus", "Ban", "", "relayer", "bootstrap" }

\* the tags a caller can build
PeerTags ==
    {PeerTag_Consensus, PeerTag_AlwaysAllow, PeerTag_ban_key}
    \cup {PeerTag_ban(until) : until \in 0..MaxUntil}
    \cup {PeerTag_Custom(str) : str \in TagStrings}

\* two tags are compared and hashed, as a HashSet of tags does
ComparePeerTags ==
    /\ op = "init"
    /\ \E self \in PeerTags, other \in PeerTags :
          /\ op' = "PeerTag_eq"
          /\ arg' = <<self, other>>
          /\ res' = Ok([eq |-> PeerTag_eq(self, other),
                        hash_self |-> PeerTag_hash(self),
                        hash_other |-> PeerTag_hash(other)])
          /\ UNCHANGED wire

\* a tag is asked for by name
CustomPeerTag ==
    /\ op = "init"
    /\ \E s \in TagStrings :
          /\ op' = "PeerTag_custom"
          /\ arg' = s
          /\ res' = Ok(PeerTag_custom(s))
          /\ UNCHANGED wire

Next ==
    \/ EncodeUnverified
    \/ DecodeUnverified
    \/ EncodeSigned
    \/ DecodeSigned
    \/ ReceiveRaw
    \/ DecodeRaw
    \/ CreateWeb3Transaction
    \/ ComparePeerTags
    \/ CustomPeerTag

Spec == Init /\ [][Next]_vars

(***************************************************************************)
(* JSON request values (core/api/src/jsonrpc/web3_types.rs)                *)
(*                                                                         *)
(* A JSON value is [t, s, kv, b, n, a]: t names its shape, and the field   *)
(* of that shape holds it.  A string is the sequence of its characters; an *)
(* object the sequence of its [k, v] members in document order.            *)
(***************************************************************************)
JStr(s) == [t |-> "string", s |-> s, kv |-> <<>>, b |-> FALSE, n |-> 0, a |-> <<>>]

JObj(kv) == [t |-> "object", s |-> <<>>, kv |-> kv, b |-> FALSE, n |-> 0, a |-> <<>>]

JBool(b) == [t |-> "bool", s |-> <<>>, kv |-> <<>>, b |-> b, n |-> 0, a |-> <<>>]

JNum(n) == [t |-> "number", s |-> <<>>, kv |-> <<>>, b |-> FALSE, n |-> n, a |-> <<>>]

JArr(a) == [t |-> "array", s |-> <<>>, kv |-> <<>>, b |-> FALSE, n |-> 0, a |-> a]

JNull == [t |-> "null", s |-> <<>>, kv |-> <<>>, b |-> FALSE, n |-> 0, a |-> <<>>]

\* str::starts_with("0x")
starts_with_0x(value) == Len(value) >= 2 /\ value[1] = "0" /\ value[2] = "x"

\* char::to_digit(16)
HexDigit ==
    [c \in {"0", "1", "2", "3", "4", "5", "6", "7", "8", "9",
            "a", "b", "c", "d", "e", "f", "A", "B", "C", "D", "E", "F"} |->
        CASE c = "0" -> 0 [] c = "1" -> 1 [] c = "2" -> 2 [] c = "3" -> 3
          [] c = "4" -> 4 [] c = "5" -> 5 [] c = "6" -> 6 [] c = "7" -> 7
          [] c = "8" -> 8 [] c = "9" -> 9
          [] c \in {"a", "A"} -> 10 [] c \in {"b", "B"} -> 11
          [] c \in {"c", "C"} -> 12 [] c \in {"d", "D"} -> 13
          [] c \in {"e", "E"} -> 14 [] c \in {"f", "F"} -> 15]

\* A u64 is kept as its hexadecimal digits (0..15 each), most significant
\* first, without leading zeros: at most U64_HEX_DIGITS of them.  Zero is <<>>.
U64_HEX_DIGITS == 16

RECURSIVE U64(_)
\* the u64 of a natural number
U64(n) == IF n = 0 THEN <<>> ELSE Append(U64(n \div 16), n % 16)

RECURSIVE from_str_radix_digits(_, _, _)
\* the digit loop of u64::from_str_radix: result = result * 16 + digit, checked
from_str_radix_digits(acc, digits, i) ==
    IF i > Len(digits) THEN Ok(acc)
    ELSE IF digits[i] \notin DOMAIN HexDigit THEN Err("invalid digit found in string")
    ELSE LET d    == HexDigit[digits[i]]
             next == IF acc = <<>> /\ d = 0 THEN <<>> ELSE Append(acc, d)
         IN IF Len(next) > U64_HEX_DIGITS
            THEN Err("number too large to fit in target type")
            ELSE from_str_radix_digits(next, digits, i + 1)

\* u64::from_str_radix(src, 16): an optional '+' sign, then digits
from_str_radix_16(src) ==
    IF src = <<>> THEN Err("cannot parse integer from empty string")
    ELSE IF src = <<"+">> \/ src = <<"-">> THEN Err("invalid digit found in string")
    ELSE from_str_radix_digits(<<>>, IF src[1] = "+" THEN Tail(src) ELSE src, 1)

\* format!("Invalid block number: {}", e)
InvalidBlockNumber(e) ==
    CASE e = "cannot parse integer from empty string" ->
            "Invalid block number: cannot parse integer from empty string"
      [] e = "invalid digit found in string" ->
            "Invalid block number: invalid digit found in string"
      [] e = "number too large to fit in target type" ->
            "Invalid block number: number too large to fit in target type"

\* impl Deserialize for H256: "0x" and exactly 64 hexadecimal digits
H256_deserialize(j) ==
    IF j.t # "string" THEN Err("invalid type")
    ELSE IF ~starts_with_0x(j.s) THEN Err("invalid H256: missing 0x prefix")
    ELSE IF Len(j.s) # 2 + 2 * H256_LEN THEN Err("invalid H256: length")
    ELSE IF \E i \in 3..Len(j.s) : j.s[i] \notin DOMAIN HexDigit
    THEN Err("invalid H256: digit")
    ELSE Ok([i \in 1..H256_LEN |->
                HexDigit[j.s[2 * i + 1]] * 16 + HexDigit[j.s[2 * i + 2]]])

\* enum BlockId { Num(u64), Hash(H256), Latest }
BlockId_Num(n) == [kind |-> "Num", num |-> n, hash |-> <<>>]

BlockId_Hash(h) == [kind |-> "Hash", num |-> <<>>, hash |-> h]

BlockId_Latest == [kind |-> "Latest", num |-> <<>>, hash |-> <<>>]

\* BlockIdVisitor::visit_str
BlockIdVisitor_visit_str(value) ==
    IF value = <<"l", "a", "t", "e", "s", "t">> THEN Ok(BlockId_Latest)
    ELSE IF starts_with_0x(value)
    THEN LET n == from_str_radix_16(SubSeq(value, 3, Len(value)))
         IN IF n.ok THEN Ok(BlockId_Num(n.val)) ELSE Err(InvalidBlockNumber(n.err))
    ELSE Err("Invalid block number: missing 0x prefix")

\* BlockIdVisitor::visit_map: the loop returns or breaks in its first turn.
\* `used` is the number of members taken from the map.
BlockIdVisitor_visit_map(kv) ==
    IF kv = <<>> THEN [r |-> Err("Invalid input"), used |-> 0]
    ELSE IF kv[1].k = "blockNumber"
    THEN IF kv[1].v.t # "string" THEN [r |-> Err("invalid type"), used |-> 1]
         ELSE IF starts_with_0x(kv[1].v.s)
         THEN LET n == from_str_radix_16(SubSeq(kv[1].v.s, 3, Len(kv[1].v.s)))
              IN IF n.ok THEN [r |-> Ok(BlockId_Num(n.val)), used |-> 1]
                 ELSE [r |-> Err(InvalidBlockNumber(n.err)), used |-> 1]
         ELSE [r |-> Err("Invalid block number: missing 0x prefix"), used |-> 1]
    ELSE [r |-> Err("Unknown key"), used |-> 0]

\* impl Deserialize for BlockId: deserialize_any(BlockIdVisitor).  A string
\* goes to visit_str, an object to visit_map (serde_json then requires the
\* map to be used up), every other shape to the Visitor default, an error.
BlockId_deserialize(j) ==
    IF j.t = "string" THEN BlockIdVisitor_visit_str(j.s)
    ELSE IF j.t = "object"
    THEN LET m == BlockIdVisitor_visit_map(j.kv)
         IN IF m.r.ok /\ m.used < Len(j.kv) THEN Err("trailing characters")
            ELSE m.r
    ELSE Err("invalid type")

\* Option::None of a value decoded from JSON
None == [some |-> FALSE, v |-> <<>>]

\* enum Web3BlockNumber { Hash { hash, require_canonical }, Num(u64), Latest, Pending }
Web3BlockNumber_Hash(h, rc) ==
    [kind |-> "Hash", num |-> <<>>, hash |-> h, require_canonical |-> rc]

Web3BlockNumber_Num(n) ==
    [kind |-> "Num", num |-> n, hash |-> <<>>, require_canonical |-> FALSE]

Web3BlockNumber_Latest ==
    [kind |-> "Latest", num |-> <<>>, hash |-> <<>>, require_canonical |-> FALSE]

Web3BlockNumber_Pending ==
    [kind |-> "Pending", num |-> <<>>, hash |-> <<>>, require_canonical |-> FALSE]

\* Web3BlockNumberVisitor::visit_str
Web3BlockNumberVisitor_visit_str(value) ==
    LET num(n) == IF n.ok THEN Ok(Web3BlockNumber_Num(n.val))
                  ELSE Err(InvalidBlockNumber(n.err))
    IN IF value = <<"l", "a", "t", "e", "s", "t">> THEN Ok(Web3BlockNumber_Latest)
       ELSE IF value = <<"p", "e", "n", "d", "i", "n", "g">> THEN Ok(Web3BlockNumber_Pending)
       ELSE IF starts_with_0x(value)
       THEN num(from_str_radix_16(SubSeq(value, 3, Len(value))))
       ELSE Err("Invalid block number: missing 0x prefix")

RECURSIVE Web3BlockNumberVisitor_loop(_, _, _, _)
\* the loop of Web3BlockNumberVisitor::visit_map from member i on, with the
\* locals require_canonical and block_hash; block_number is set only right
\* before the break, so the loop ends there with Num.  `used` is the number of
\* members taken from the map.
Web3BlockNumberVisitor_loop(kv, i, require_canonical, block_hash) ==
    LET number(n) ==
            IF n.ok THEN [r |-> Ok(Web3BlockNumber_Num(n.val)), used |-> i]
            ELSE [r |-> Err(InvalidBlockNumber(n.err)), used |-> i]
        hashed(h) ==
            IF h.ok THEN Web3BlockNumberVisitor_loop(kv, i + 1, require_canonical, Some(h.val))
            ELSE [r |-> h, used |-> i]
    IN IF i > Len(kv)
       THEN IF block_hash.some
            THEN [r |-> Ok(Web3BlockNumber_Hash(block_hash.v, require_canonical)),
                  used |-> Len(kv)]
            ELSE [r |-> Err("Invalid input"), used |-> Len(kv)]
       ELSE IF kv[i].k = "Web3BlockNumber"
       THEN IF kv[i].v.t # "string" THEN [r |-> Err("invalid type"), used |-> i]
            ELSE IF starts_with_0x(kv[i].v.s)
            THEN number(from_str_radix_16(SubSeq(kv[i].v.s, 3, Len(kv[i].v.s))))
            ELSE [r |-> Err("Invalid block number: missing 0x prefix"), used |-> i]
       ELSE IF kv[i].k = "blockHash"
       THEN hashed(H256_deserialize(kv[i].v))
       ELSE IF kv[i].k = "requireCanonical"
       THEN IF kv[i].v.t # "bool" THEN [r |-> Err("invalid type"), used |-> i]
            ELSE Web3BlockNumberVisitor_loop(kv, i + 1, kv[i].v.b, block_hash)
       ELSE [r |-> Err("Unknown key"), used |-> i - 1]

\* a plausible slip: require_canonical starts as true
Web3BlockNumberVisitor_visit_map_Canonical(kv) ==
    Web3BlockNumberVisitor_loop(kv, 1, TRUE, None)

\* Web3BlockNumberVisitor::visit_map
Web3BlockNumberVisitor_visit_map(kv) ==
    Web3BlockNumberVisitor_loop(kv, 1, FALSE, None)

\* impl Deserialize for Web3BlockNumber: deserialize_any(Web3BlockNumberVisitor)
Web3BlockNumber_deserialize(j) ==
    LET map(m) == IF m.r.ok /\ m.used < Len(j.kv) THEN Err("trailing characters")
                  ELSE m.r
    IN IF j.t = "string" THEN Web3BlockNumberVisitor_visit_str(j.s)
       ELSE IF j.t = "object" THEN map(Web3BlockNumberVisitor_visit_map(j.kv))
       ELSE Err("invalid type")

\* char::to_digit(10)
DecDigit ==
    [c \in {"0", "1", "2", "3", "4", "5", "6", "7", "8", "9"} |-> HexDigit[c]]

RECURSIVE checked_mul_add(_, _, _)
\* result * radix + digit on a usize kept as hexadecimal digits; the caller
\* checks the width of the outcome (checked_mul / checked_add)
checked_mul_add(acc, radix, carry) ==
    IF acc = <<>> THEN U64(carry)
    ELSE LET shift(v) ==
                 Append(checked_mul_add(SubSeq(acc, 1, Len(acc) - 1), radix, v \div 16),
                        v % 16)
         IN shift(acc[Len(acc)] * radix + carry)

RECURSIVE from_str_digits(_, _, _)
\* the digit loop of usize::from_str (radix 10)
from_str_digits(acc, digits, i) ==
    LET step(next) ==
            IF Len(next) > U64_HEX_DIGITS
            THEN Err("number too large to fit in target type")
            ELSE from_str_digits(next, digits, i + 1)
    IN IF i > Len(digits) THEN Ok(acc)
       ELSE IF digits[i] \notin DOMAIN DecDigit THEN Err("invalid digit found in string")
       ELSE step(checked_mul_add(acc, 10, DecDigit[digits[i]]))

\* str::parse::<usize>(): from_str_radix(src, 10), an optional '+' sign, then
\* digits (usize is 64 bits wide)
parse_usize(src) ==
    IF src = <<>> THEN Err("cannot parse integer from empty string")
    ELSE IF src = <<"+">> \/ src = <<"-">> THEN Err("invalid digit found in string")
    ELSE from_str_digits(<<>>, IF src[1] = "+" THEN Tail(src) ELSE src, 1)

\* format!("Invalid index: {}", e)
InvalidIndex(e) ==
    CASE e = "cannot parse integer from empty string" ->
            "Invalid index: cannot parse integer from empty string"
      [] e = "invalid digit found in string" ->
            "Invalid index: invalid digit found in string"
      [] e = "number too large to fit in target type" ->
            "Invalid index: number too large to fit in target type"

\* struct Index(usize)
Index(n) == [index |-> n]

\* IndexVisitor::visit_str
IndexVisitor_visit_str(value) ==
    LET map(n) == IF n.ok THEN Ok(Index(n.val)) ELSE Err(InvalidIndex(n.err))
    IN IF starts_with_0x(value)
       THEN map(from_str_radix_16(SubSeq(value, 3, Len(value))))
       ELSE map(parse_usize(value))

\* impl Deserialize for Index: deserialize_any(IndexVisitor).  The visitor
\* has visit_str and visit_string only: every other shape is the Visitor
\* default, an invalid-type error.
Index_deserialize(j) ==
    IF j.t = "string" THEN IndexVisitor_visit_str(j.s)
    ELSE Err("invalid type")

\* impl Deserialize for H160: "0x" and exactly 40 hexadecimal digits
H160_deserialize(j) ==
    IF j.t # "string" THEN Err("invalid type")
    ELSE IF ~starts_with_0x(j.s) THEN Err("invalid H160: missing 0x prefix")
    ELSE IF Len(j.s) # 2 + 2 * H160_LEN THEN Err("invalid H160: length")
    ELSE IF \E i \in 3..Len(j.s) : j.s[i] \notin DOMAIN HexDigit
    THEN Err("invalid H160: digit")
    ELSE Ok([i \in 1..H160_LEN |->
                HexDigit[j.s[2 * i + 1]] * 16 + HexDigit[j.s[2 * i + 2]]])

RECURSIVE from_value(_, _)
RECURSIVE from_value_Vec(_, _)
\* serde_json::from_value::<T>(v) for the scalar types T of a variadic field:
\* H160, H256, and a T that is itself written as an array, Vec<H256>
from_value(T, v) ==
    IF T = "H160" THEN H160_deserialize(v)
    ELSE IF T = "H256" THEN H256_deserialize(v)
    ELSE from_value_Vec("H256", v)

\* serde_json::from_value::<Vec<T>>(v): an array whose elements all parse as T
from_value_Vec(T, v) ==
    IF v.t # "array" THEN Err("invalid type")
    ELSE collect([i \in 1..Len(v.a) |-> from_value(T, v.a[i])])

\* enum VariadicValue<T> { Single(T), Multiple(Vec<T>), Null }
VariadicValue_Single(t) == [kind |-> "Single", v |-> t]

VariadicValue_Multiple(ts) == [kind |-> "Multiple", v |-> ts]

VariadicValue_Null == [kind |-> "Null", v |-> <<>>]

\* a plausible slip: the array parse is tried before the scalar parse
VariadicValue_deserialize_ArrayFirst(T, v) ==
    LET single(s) ==
            IF s.ok THEN Ok(VariadicValue_Single(s.val))
            ELSE Err("Invalid variadic value type")
        multiple(m) ==
            IF m.ok THEN Ok(VariadicValue_Multiple(m.val))
            ELSE single(from_value(T, v))
    IN IF v.t = "null" THEN Ok(VariadicValue_Null)
       ELSE multiple(from_value_Vec(T, v))

\* impl Deserialize for VariadicValue<T>: null, then from_value as T, or else
\* from_value as Vec<T>, or else the error
VariadicValue_deserialize(T, v) ==
    LET multiple(m) ==
            IF m.ok THEN Ok(VariadicValue_Multiple(m.val))
            ELSE Err("Invalid variadic value type")
        single(s) ==
            IF s.ok THEN Ok(VariadicValue_Single(s.val))
            ELSE multiple(from_value_Vec(T, v))
    IN IF v.t = "null" THEN Ok(VariadicValue_Null)
       ELSE single(from_value(T, v))

(***************************************************************************)
(* The request structs with #[derive(Deserialize)].  A struct is described *)
(* by its JSON field names (rename_all = "camelCase"), the fields that are *)
(* not Option, and whether it carries deny_unknown_fields.                 *)
(***************************************************************************)
FilterKeys == {"fromBlock", "toBlock", "blockHash", "address", "topics", "limit"}

\* struct Web3CallRequest
Web3CallRequest_struct ==
    [fields   |-> {"type", "from", "to", "gasPrice", "maxFeePerGas", "gas", "value",
                   "data", "nonce", "accessList", "maxPriorityFeePerGas"},
     required |-> {"to", "data"},
     deny_unknown_fields |-> TRUE]

\* struct Web3Filter
Web3Filter_struct ==
    [fields |-> FilterKeys, required |-> {}, deny_unknown_fields |-> TRUE]

\* struct ChangeWeb3Filter
ChangeWeb3Filter_struct ==
    [fields |-> FilterKeys, required |-> {}, deny_unknown_fields |-> TRUE]

\* struct Filter
Filter_struct ==
    [fields   |-> {"fromBlock", "toBlock", "address", "topics", "limit"},
     required |-> {"fromBlock", "toBlock", "topics"},
     deny_unknown_fields |-> FALSE]

StructOf(name) ==
    CASE name = "Web3CallRequest" -> Web3CallRequest_struct
      [] name = "Web3Filter" -> Web3Filter_struct
      [] name = "ChangeWeb3Filter" -> ChangeWeb3Filter_struct
      [] name = "Filter" -> Filter_struct

RECURSIVE derive_visit_map(_, _, _, _)
\* the visit_map serde derives for a struct, from member i on.  A member is
\* [k, valid]: its key, and whether its value deserializes at the type of the
\* field of that name.  An unknown key is an error under deny_unknown_fields
\* and is skipped (IgnoredAny) otherwise; a field met twice is an error; at
\* the end a field that is not Option must have been met.
derive_visit_map(st, kv, i, seen) ==
    IF i > Len(kv)
    THEN IF st.required \subseteq seen THEN Ok([fields |-> seen])
         ELSE Err("missing field")
    ELSE IF kv[i].k \notin st.fields
    THEN IF st.deny_unknown_fields THEN Err("unknown field")
         ELSE derive_visit_map(st, kv, i + 1, seen)
    ELSE IF kv[i].k \in seen THEN Err("duplicate field")
    ELSE IF ~kv[i].valid THEN Err("invalid value")
    ELSE derive_visit_map(st, kv, i + 1, seen \cup {kv[i].k})

\* #[derive(Deserialize)] for the struct of that name, given a JSON object
derive_deserialize(name, kv) == derive_visit_map(StructOf(name), kv, 1, {})

(***************************************************************************)
(* ChangeWeb3Filter::try_into.                                             *)
(*   ChangeWeb3Filter  [from_block, to_block, block_hash, address, topics, *)
(*                      limit], each an Option                             *)
(*   Filter            [from_block, to_block, address, topics, limit]      *)
(***************************************************************************)
\* the entries taken from the supplied topics, and the slots of the result
TOPIC_SLOTS == 4

\* a plausible slip: a hash identifier is kept only when it is canonical
num_to_id_CanonicalOnly(num) ==
    IF num.kind = "Hash" /\ num.require_canonical THEN BlockId_Hash(num.hash)
    ELSE IF num.kind = "Num" THEN BlockId_Num(num.num)
    ELSE BlockId_Latest

\* let num_to_id = |num| match num { .. }
num_to_id(num) ==
    IF num.kind = "Hash" THEN BlockId_Hash(num.hash)
    ELSE IF num.kind = "Num" THEN BlockId_Num(num.num)
    ELSE BlockId_Latest

\* a plausible slip: the block hash is used only for an omitted bound
block_range_HashAsDefault(self) ==
    LET default == IF self.block_hash.some THEN BlockId_Hash(self.block_hash.v)
                   ELSE BlockId_Latest
    IN << IF self.from_block.some THEN num_to_id(self.from_block.v) ELSE default,
          IF self.to_block.some THEN num_to_id(self.to_block.v) ELSE default >>

\* let (from_block, to_block) = match self.block_hash { .. }
block_range(self) ==
    IF self.block_hash.some
    THEN << BlockId_Hash(self.block_hash.v), BlockId_Hash(self.block_hash.v) >>
    ELSE << IF self.from_block.some THEN num_to_id(self.from_block.v) ELSE BlockId_Latest,
            IF self.to_block.some THEN num_to_id(self.to_block.v) ELSE BlockId_Latest >>

\* match on a VariadicValue: Null => None, Single(a) => Some(vec![a]),
\* Multiple(a) => Some(a)
expand(value) ==
    IF value.kind = "Null" THEN None
    ELSE IF value.kind = "Single" THEN Some(<<value.v>>)
    ELSE Some(value.v)

\* a plausible slip: of several addresses only the first is kept
address_filter_FirstOnly(address) ==
    IF ~address.some \/ address.v.kind = "Null" THEN None
    ELSE IF address.v.kind = "Single" THEN Some(<<address.v.v>>)
    ELSE Some(IF address.v.v = <<>> THEN <<>> ELSE <<address.v.v[1]>>)

\* address: self.address.and_then(|address| match address { .. })
address_filter(address) ==
    IF address.some THEN expand(address.v) ELSE None

\* a plausible slip: the collected entries are returned as they are, without
\* the four iter.next().unwrap_or(None)
topics_filter_Unpadded(topics) ==
    IF topics.some
    THEN [i \in 1..(IF Len(topics.v) < TOPIC_SLOTS THEN Len(topics.v) ELSE TOPIC_SLOTS) |->
             expand(topics.v[i])]
    ELSE <<>>

\* topics: the first four supplied entries, expanded, then four times
\* iter.next().unwrap_or(None)
topics_filter(topics) ==
    LET slots(taken) ==
            [i \in 1..TOPIC_SLOTS |-> IF i <= Len(taken) THEN taken[i] ELSE None]
    IN slots(IF topics.some
             THEN [i \in 1..(IF Len(topics.v) < TOPIC_SLOTS
                             THEN Len(topics.v) ELSE TOPIC_SLOTS) |->
                      expand(topics.v[i])]
             ELSE <<>>)

\* a plausible slip: a request pinned to one block loses its limit
ChangeWeb3Filter_try_into_HashClearsLimit(self) ==
    [from_block |-> block_range(self)[1],
     to_block   |-> block_range(self)[2],
     address    |-> address_filter(self.address),
     topics     |-> topics_filter(self.topics),
     limit      |-> IF self.block_hash.some THEN [self.limit EXCEPT !.some = FALSE]
                    ELSE self.limit]

\* ChangeWeb3Filter::try_into
ChangeWeb3Filter_try_into(self) ==
    [from_block |-> block_range(self)[1],
     to_block   |-> block_range(self)[2],
     address    |-> address_filter(self.address),
     topics     |-> topics_filter(self.topics),
     limit      |-> self.limit]

(***************************************************************************)
(* impl Serialize for BlockId                                              *)
(***************************************************************************)
\* the digit characters of {:x}
LowerHexChar ==
    <<"0", "1", "2", "3", "4", "5", "6", "7", "8", "9", "a", "b", "c", "d", "e", "f">>

\* format!("{:x}", x) of a u64: lowercase digits, no leading zeros, "0" for 0
format_x(x) ==
    IF x = <<>> THEN <<"0">> ELSE [i \in 1..Len(x) |-> LowerHexChar[x[i] + 1]]

\* format!("{:02x}", byte)
format_02x(byte) == <<LowerHexChar[(byte \div 16) + 1], LowerHexChar[(byte % 16) + 1]>>

\* Display for H256 (fixed-hash): "0x", the first two bytes, an ellipsis, the
\* last two bytes
H256_Display(h) ==
    <<"0", "x">> \o format_02x(h[1]) \o format_02x(h[2]) \o <<"...">>
    \o format_02x(h[H256_LEN - 1]) \o format_02x(h[H256_LEN])

\* impl Serialize for BlockId: each variant goes to serialize_str
BlockId_serialize(id) ==
    IF id.kind = "Num" THEN JStr(<<"0", "x">> \o format_x(id.num))
    ELSE IF id.kind = "Latest" THEN JStr(<<"l", "a", "t", "e", "s", "t">>)
    ELSE JStr(<<"{", " ", "'", "h", "a", "s", "h", "'", ":", " ", "'">> \o H256_Display(id.hash) \o <<"'", ",", " ", "'", "r", "e", "q", "u", "i", "r", "e", "C", "a", "n", "o", "n", "i", "c", "a", "l", "'", ":", " ", "'">>
              \o <<"f", "a", "l", "s", "e">> \o <<"'", " ", " ", "}">>)

(***************************************************************************)
(* Inputs of the request-value decoders                                    *)
(***************************************************************************)
\* longest string enumerated exhaustively over Alphabet
MaxStrLen == 4

\* most members of an object enumerated exhaustively
MaxKeys == 2

Alphabet == {"0", "x", "a", "F", "g", "+"}

Repeat(n, c) == [i \in 1..n |-> c]

\* "0x" and the 64 hexadecimal digits of a hash
HashStr(c) == <<"0", "x">> \o Repeat(2 * H256_LEN, c)

Strings ==
    UNION {[1..k -> Alphabet] : k \in 0..MaxStrLen}
    \cup { <<"l", "a", "t", "e", "s", "t">>, <<"L", "a", "t", "e", "s", "t">>,
           <<"e", "a", "r", "l", "i", "e", "s", "t">>,
           <<"p", "e", "n", "d", "i", "n", "g">>,
           <<"1", "0">>, <<"0", "x", "1", "0">>, <<"0", "X", "1", "0">>,
           <<"0", "x", "-", "1">>, <<"0", "x", " ", "1">>,
           <<"0", "x">> \o Repeat(U64_HEX_DIGITS, "f"),
           <<"0", "x", "1">> \o Repeat(U64_HEX_DIGITS, "0"),
           <<"0", "x">> \o Repeat(U64_HEX_DIGITS, "0") \o <<"1", "f">>,
           <<"0", "x", "+">> \o Repeat(U64_HEX_DIGITS, "f"),
           HashStr("a") }

MemberValues ==
    { JStr(<<"0", "x", "1", "0">>), JStr(<<"1", "0">>), JStr(HashStr("a")),
      JBool(TRUE), JNum(1) }

Members ==
    { [k |-> k, v |-> v] :
        k \in {"blockHash", "requireCanonical", "blockNumber", "Web3BlockNumber", "foo"},
        v \in MemberValues }

Objects == UNION {[1..k -> Members] : k \in 0..MaxKeys}

JsonValues ==
    {JStr(s) : s \in Strings} \cup {JObj(kv) : kv \in Objects}
    \cup {JNull, JBool(TRUE), JNum(16), JArr(<<>>), JArr(<<JStr(<<"0", "x", "1">>)>>)}

\* a BlockId parameter of an RPC method (eth_getBlockByNumber, ...)
DecodeBlockId ==
    /\ op = "init"
    /\ \E j \in JsonValues :
          /\ op' = "BlockId"
          /\ arg' = j
          /\ res' = BlockId_deserialize(j)
          /\ UNCHANGED wire

\* a fromBlock / toBlock value of a filter request (eth_newFilter)
DecodeWeb3BlockNumber ==
    /\ op = "init"
    /\ \E j \in JsonValues :
          /\ op' = "Web3BlockNumber"
          /\ arg' = j
          /\ res' = Web3BlockNumber_deserialize(j)
          /\ UNCHANGED wire

\* strings given as an index: the enumerated ones, and decimal and
\* hexadecimal spellings up to the width of usize
IndexStrings ==
    Strings
    \cup { <<"1", "6">>, <<"0", "x", "1", "0">>, <<"2", "5", "5">>, <<"0", "x", "f", "f">>,
           <<"0", "x", "F", "f">>, <<"0", "0", "1", "6">>, <<"+", "1", "6">>,
           <<"-", "1">>, <<"1", ".", "5">>, <<" ", "1">>, <<"1", "e", "1">>,
           <<"1", "8", "4", "4", "6", "7", "4", "4", "0", "7",
             "3", "7", "0", "9", "5", "5", "1", "6", "1", "5">>,
           <<"1", "8", "4", "4", "6", "7", "4", "4", "0", "7",
             "3", "7", "0", "9", "5", "5", "1", "6", "1", "6">> }

IndexValues ==
    {JStr(s) : s \in IndexStrings}
    \cup {JNull, JBool(TRUE), JNum(16), JArr(<<>>), JArr(<<JStr(<<"1">>)>>),
          JObj(<<>>), JObj(<<[k |-> "index", v |-> JStr(<<"1">>)]>>)}

\* the index parameter of an RPC method (eth_getFilterChanges,
\* eth_uninstallFilter)
DecodeIndex ==
    /\ op = "init"
    /\ \E j \in IndexValues :
          /\ op' = "Index"
          /\ arg' = j
          /\ res' = Index_deserialize(j)
          /\ UNCHANGED wire

\* longest array enumerated exhaustively over VariadicElements
MaxArrayLen == 2

\* "0x" and the 40 hexadecimal digits of an address
AddressStr(c) == <<"0", "x">> \o Repeat(2 * H160_LEN, c)

\* the scalar types T a variadic field is decoded at
VariadicTypes == {"H160", "H256", "Vec<H256>"}

VariadicElements ==
    { JStr(HashStr("a")), JStr(HashStr("b")), JStr(AddressStr("a")), JStr(AddressStr("c")),
      JStr(<<"0", "x", "a", "b", "c">>), JNum(1), JNull }

VariadicValues ==
    VariadicElements
    \cup {JArr(a) : a \in UNION {[1..k -> VariadicElements] : k \in 0..MaxArrayLen}}
    \cup { JBool(TRUE), JObj(<<>>), JArr(<<JArr(<<>>)>>),
           JArr(<<JArr(<<JStr(HashStr("a")), JStr(HashStr("b"))>>), JArr(<<>>)>>),
           JArr(<<JArr(<<JStr(HashStr("a"))>>), JStr(HashStr("b"))>>) }

\* an address (H160) or topic (H256) value of a filter request
DecodeVariadic ==
    /\ op = "init"
    /\ \E T \in VariadicTypes, j \in VariadicValues :
          /\ op' = "VariadicValue"
          /\ arg' = [T |-> T, v |-> j]
          /\ res' = VariadicValue_deserialize(T, j)
          /\ UNCHANGED wire

\* the request structs that are RPC parameters
StructNames == {"Web3CallRequest", "Web3Filter", "ChangeWeb3Filter", "Filter"}

\* objects each struct accepts: members with valid values, in some order
BaseObjects(name) ==
    LET m(k) == [k |-> k, valid |-> TRUE]
    IN CASE name = "Web3CallRequest" ->
              { <<m("to"), m("data")>>, <<m("from"), m("data"), m("to"), m("gas")>> }
         [] name \in {"Web3Filter", "ChangeWeb3Filter"} ->
              { <<>>, <<m("blockHash")>>, <<m("address"), m("topics")>>,
                <<m("toBlock"), m("limit"), m("fromBlock")>> }
         [] name = "Filter" ->
              { <<m("fromBlock"), m("toBlock"), m("topics")>>,
                <<m("topics"), m("address"), m("toBlock"), m("fromBlock"), m("limit")>>,
                <<m("fromBlock"), m("topics")>> }

\* keys of the members put into an object
MemberKeys == FilterKeys \cup {"to", "data", "gas", "foo", "from_block", "FromBlock"}

\* the object with one more member put in at position i
InsertAt(kv, i, x) == SubSeq(kv, 1, i - 1) \o <<x>> \o SubSeq(kv, i, Len(kv))

\* the objects given to a struct: those it accepts, and each of them with one
\* more member, of any key and with a valid or an invalid value, at any place
StructObjects(name) ==
    BaseObjects(name)
    \cup { InsertAt(b[1], b[2], [k |-> b[3], valid |-> b[4]]) :
             b \in { c \in BaseObjects(name) \X (1..6) \X MemberKeys \X BOOLEAN :
                        c[2] <= Len(c[1]) + 1 } }

\* a struct parameter of an RPC method (eth_call, eth_getLogs,
\* eth_newFilter, eth_removedLogs)
DecodeStruct ==
    /\ op = "init"
    /\ \E name \in StructNames :
          \E kv \in StructObjects(name) :
             /\ op' = "struct"
             /\ arg' = [name |-> name, kv |-> kv]
             /\ res' = derive_deserialize(name, kv)
             /\ UNCHANGED wire

\* most topic entries a request supplies
MaxTopics == 6

\* Option::None of a field, over a value of the field's type
NoneOf(placeholder) == [some |-> FALSE, v |-> placeholder]

\* fromBlock / toBlock of a request: omitted, or a Web3BlockNumber
BlockFields ==
    { NoneOf(Web3BlockNumber_Latest), Some(Web3BlockNumber_Latest), Some(Web3BlockNumber_Pending),
      Some(Web3BlockNumber_Num(U64(16))),
      Some(Web3BlockNumber_Hash(H256(170), TRUE)),
      Some(Web3BlockNumber_Hash(H256(187), FALSE)) }

\* blockHash of a request
BlockHashFields == { None, Some(H256(170)), Some(H256(204)) }

\* address of a request
AddressFields ==
    { NoneOf(VariadicValue_Null), Some(VariadicValue_Null), Some(VariadicValue_Single(Address(170))),
      Some(VariadicValue_Multiple(<<>>)),
      Some(VariadicValue_Multiple(<<Address(170), Address(204)>>)),
      Some(VariadicValue_Multiple(<<Address(204), Address(170)>>)),
      Some(VariadicValue_Multiple(<<Address(170), Address(204), Address(170)>>)) }

\* one entry of topics
TopicEntries ==
    { VariadicValue_Null, VariadicValue_Single(H256(221)),
      VariadicValue_Multiple(<<H256(221), H256(238)>>) }

\* topics of a request: omitted, or up to MaxTopics entries
TopicFields ==
    {None} \cup {Some(ts) : ts \in UNION {[1..k -> TopicEntries] : k \in 0..MaxTopics}}

\* the requests: every combination of the block fields, and every
\* combination of address and topics
ChangeWeb3Filters ==
    { [from_block |-> f, to_block |-> t, block_hash |-> h,
       address |-> Some(VariadicValue_Single(Address(170))),
       topics |-> Some(<<VariadicValue_Null, VariadicValue_Single(H256(221))>>),
       limit |-> l] :
         f \in BlockFields, t \in BlockFields, h \in BlockHashFields,
         l \in {NoneOf(0), Some(10)} }
    \cup
    { [from_block |-> NoneOf(Web3BlockNumber_Latest),
       to_block |-> Some(Web3BlockNumber_Num(U64(16))),
       block_hash |-> h, address |-> a, topics |-> ts, limit |-> NoneOf(0)] :
         h \in {None, Some(H256(170))}, a \in AddressFields, ts \in TopicFields }

\* a decoded filter request is canonicalized (eth_newFilter)
Canonicalize ==
    /\ op = "init"
    /\ \E self \in ChangeWeb3Filters :
          /\ op' = "try_into"
          /\ arg' = self
          /\ res' = Ok(ChangeWeb3Filter_try_into(self))
          /\ UNCHANGED wire

\* largest block number serialized, besides the largest u64
MaxBlockNumber == 300

\* a hash whose bytes differ from one another
MixedHash == [i \in 1..H256_LEN |-> (i * 7) % 256]

\* the block identifiers given to the serializer
BlockIds ==
    {BlockId_Latest}
    \cup {BlockId_Num(U64(n)) : n \in 0..MaxBlockNumber}
    \cup {BlockId_Num(Fill(U64_HEX_DIGITS, 15)), BlockId_Num(<<1>> \o Fill(U64_HEX_DIGITS - 1, 0))}
    \cup {BlockId_Hash(H256(170)), BlockId_Hash(H256(0)), BlockId_Hash(MixedHash)}

\* a BlockId is written into a response or a stored Filter
SerializeBlockId ==
    /\ op = "init"
    /\ \E id \in BlockIds :
          /\ op' = "BlockId_serialize"
          /\ arg' = id
          /\ res' = Ok(BlockId_serialize(id))
          /\ UNCHANGED wire

\* the serialized form of a BlockId is given back to BlockId's deserializer
DecodeSerialized ==
    /\ op = "BlockId_serialize"
    /\ res.ok
    /\ op' = "BlockId_round_trip"
    /\ wire' = res.val
    /\ res' = BlockId_deserialize(res.val)
    /\ UNCHANGED arg

NextJson ==
    \/ DecodeBlockId
    \/ DecodeWeb3BlockNumber
    \/ DecodeIndex
    \/ DecodeVariadic
    \/ DecodeStruct
    \/ Canonicalize
    \/ SerializeBlockId
    \/ DecodeSerialized

SpecJson == Init /\ [][NextJson]_vars

(***************************************************************************)
(* Concurrent calls                                                        *)
(*                                                                         *)
(* Several request-handling tasks call decode, a request-value decoder and *)
(* the canonicalizer at once.  Each call is taken one loop turn at a time: *)
(* the access-list loop of decode, the member loop of visit_map, the four  *)
(* iter.next() of try_into.  Here op, arg, wire and res are functions of   *)
(* the task: where its call stands, the call's kind and input, the `let    *)
(* mut` locals of the call, and what it returned.                          *)
(***************************************************************************)
\* the number of tasks
NumTasks == 2

Tasks == 1..NumTasks

\* the locals as the functions declare them: access_list = Vec::new() and its
\* loop index; (require_canonical, block_hash) = (false, None) and the
\* position of the map; the slots taken from iter so far
Locals0 ==
    [i |-> 0, access_list |-> <<>>, require_canonical |-> FALSE,
     block_hash |-> None, slots |-> <<>>]

\* a plausible slip: the locals are one static buffer that every call uses
frame_Static(w, t) == w[1]

\* the locals of a call are in the call's own stack frame
frame(w, t) == w[t]

\* accl_rlp's entries, once the item count and the eight leading fields passed
access_entries(r) ==
    LET leading(it, f) == IF \E k \in 1..8 : ~f[k].ok THEN <<>> ELSE items_of(it[9])
        listed(it) == IF Len(it) # 12 THEN <<>> ELSE leading(it, decode_fields(it))
    IN listed(items_of(r))

\* try_into's iter: the first four supplied topics, expanded
topics_iter(self) ==
    IF self.topics.some
    THEN [k \in 1..(IF Len(self.topics.v) < TOPIC_SLOTS THEN Len(self.topics.v)
                    ELSE TOPIC_SLOTS) |-> expand(self.topics.v[k])]
    ELSE <<>>

\* whether the call's loop takes another turn from locals L
call_more(c, L) ==
    IF c.kind = "decode"
    THEN LET turn(es) == L.i < Len(es) /\ decode_access_list_item(es[L.i + 1]).ok
         IN turn(access_entries(c.input))
    ELSE IF c.kind = "deserialize"
    THEN /\ c.input.t = "object"
         /\ L.i < Len(c.input.kv)
         /\ \/ /\ c.input.kv[L.i + 1].k = "blockHash"
               /\ H256_deserialize(c.input.kv[L.i + 1].v).ok
            \/ /\ c.input.kv[L.i + 1].k = "requireCanonical"
               /\ c.input.kv[L.i + 1].v.t = "bool"
    ELSE Len(L.slots) < TOPIC_SLOTS

\* one turn of the call's loop: access_list.push(..); block_hash = Some(..) or
\* require_canonical = ..; iter.next().unwrap_or(None)
call_step(c, L) ==
    IF c.kind = "decode"
    THEN [L EXCEPT !.i = @ + 1,
                   !.access_list =
                       Append(@, decode_access_list_item(access_entries(c.input)[L.i + 1]).val)]
    ELSE IF c.kind = "deserialize"
    THEN IF c.input.kv[L.i + 1].k = "blockHash"
         THEN [L EXCEPT !.i = @ + 1,
                        !.block_hash = Some(H256_deserialize(c.input.kv[L.i + 1].v).val)]
         ELSE [L EXCEPT !.i = @ + 1, !.require_canonical = c.input.kv[L.i + 1].v.b]
    ELSE [L EXCEPT !.slots =
              Append(@, IF Len(L.slots) < Len(topics_iter(c.input))
                        THEN topics_iter(c.input)[Len(L.slots) + 1]
                        ELSE None)]

\* what the call returns once its loop has ended with locals L
call_return(c, L) ==
    IF c.kind = "decode"
    THEN LET built(f) == IF ~f.ok THEN f ELSE Ok(hash(decode_utx(f.val)))
             list(it, es) ==
                 IF ~item_count(it[9]).ok THEN item_count(it[9])
                 ELSE IF L.i < Len(es) THEN decode_access_list_item(es[L.i + 1])
                 ELSE Ok(L.access_list)
             fields(it) ==
                 built(collect([decode_fields(it) EXCEPT
                                   ![9] = list(it, access_entries(c.input))]))
             counted(n) ==
                 IF ~n.ok THEN n
                 ELSE IF n.val # 12 THEN Err("RlpIncorrectListLen")
                 ELSE fields(items_of(c.input))
         IN counted(item_count(c.input))
    ELSE IF c.kind = "deserialize"
    THEN LET map(m) ==
                 IF m.r.ok /\ m.used < Len(c.input.kv) THEN Err("trailing characters")
                 ELSE m.r
         IN IF c.input.t = "object"
            THEN map(Web3BlockNumberVisitor_loop(c.input.kv, L.i + 1,
                                                 L.require_canonical, L.block_hash))
            ELSE Web3BlockNumber_deserialize(c.input)
    ELSE Ok([from_block |-> block_range(c.input)[1],
             to_block   |-> block_range(c.input)[2],
             address    |-> address_filter(c.input.address),
             topics     |-> L.slots,
             limit      |-> c.input.limit])

\* the calls the tasks make: decode of a well-formed body and of one whose
\* second access-list entry is miscounted, Web3BlockNumber objects, filter
\* requests
ConcurrentCalls ==
    { [kind |-> "decode", input |-> CraftBytes(c)] :
        c \in { [n |-> 12, bad |-> 0, entries |-> <<2, 2>>],
                [n |-> 12, bad |-> 0, entries |-> <<2, 1>>] } }
    \cup
    { [kind |-> "deserialize", input |-> j] :
        j \in { JObj(<<[k |-> "requireCanonical", v |-> JBool(TRUE)],
                       [k |-> "blockHash", v |-> JStr(HashStr("a"))]>>),
                JObj(<<[k |-> "blockHash", v |-> JStr(HashStr("a"))],
                       [k |-> "foo", v |-> JNum(1)]>>) } }
    \cup
    { [kind |-> "try_into",
       input |-> [from_block |-> Some(Web3BlockNumber_Num(U64(16))),
                  to_block |-> NoneOf(Web3BlockNumber_Latest),
                  block_hash |-> f[1],
                  address |-> Some(VariadicValue_Single(Address(170))),
                  topics |-> f[2], limit |-> Some(10)]] :
        f \in { <<None, NoneOf(<<>>)>>,
                <<Some(H256(170)),
                  Some(<<VariadicValue_Null, VariadicValue_Single(H256(221))>>)>> } }

InitConcurrent ==
    /\ op = [t \in Tasks |-> "idle"]
    /\ arg = [t \in Tasks |-> [kind |-> "none", input |-> <<>>]]
    /\ wire = [t \in Tasks |-> Locals0]
    /\ res = [t \in Tasks |-> Ok(<<>>)]

\* a task enters a call with fresh locals
StartCall ==
    \E t \in Tasks, c \in ConcurrentCalls :
        /\ op[t] = "idle"
        /\ op' = [op EXCEPT ![t] = "running"]
        /\ arg' = [arg EXCEPT ![t] = c]
        /\ wire' = [wire EXCEPT ![t] = Locals0]
        /\ UNCHANGED res

\* a task's call takes one turn of its loop
StepCall ==
    \E t \in Tasks :
        /\ op[t] = "running"
        /\ call_more(arg[t], frame(wire, t))
        /\ wire' = [wire EXCEPT ![t] = call_step(arg[t], frame(wire, t))]
        /\ UNCHANGED <<op, arg, res>>

\* a task's call leaves its loop and returns
ReturnCall ==
    \E t \in Tasks :
        /\ op[t] = "running"
        /\ ~call_more(arg[t], frame(wire, t))
        /\ op' = [op EXCEPT ![t] = "done"]
        /\ res' = [res EXCEPT ![t] = call_return(arg[t], frame(wire, t))]
        /\ UNCHANGED <<arg, wire>>

NextConcurrent ==
    \/ StartCall
    \/ StepCall
    \/ ReturnCall

SpecConcurrent == InitConcurrent /\ [][NextConcurrent]_vars

(***************************************************************************)
(* Properties of the transaction codec (specification Spec)                *)
(***************************************************************************)
\* the hash field is the one hash() computes
Hashed(utx) == utx.hash = hash(utx).hash

\* C1: for every SignedTransaction whose inner transaction carries a
\* signature and whose hash is the one hash() computes, rlp::decode of its
\* rlp_bytes succeeds and yields an equal value: inner transaction, sender and
\* optional public key are preserved.
C1_SignedRoundTrip ==
    (op = "stx_decode" /\ arg.transaction.signature.some /\ Hashed(arg.transaction))
        => /\ res.ok
           /\ res.val.transaction = arg.transaction
           /\ res.val.sender = arg.sender
           /\ res.val.public = arg.public
           /\ res.val = arg

\* C1 witness: a signed, hashed transaction with a public key and a
\* one-entry access list has been encoded and decoded back
C1_Witness ==
    /\ op = "stx_decode"
    /\ arg.transaction.signature.some
    /\ Hashed(arg.transaction)
    /\ arg.public.some
    /\ Len(arg.transaction.unsigned.access_list) = 1
    /\ res.ok
    /\ res.val = arg

\* C2: for every UnverifiedTransaction with no signature, encode emits a
\* 9-item list and decode accepts that list and returns a value equal to the
\* original, the signature still absent.
C2_UnsignedRoundTrip ==
    (op = "utx_decode" /\ ~arg.signature.some)
        => /\ Len(items_of(Tail(wire))) = 9
           /\ res.ok
           /\ res.val.unsigned = arg.unsigned
           /\ res.val.chain_id = arg.chain_id
           /\ ~res.val.signature.some

\* C3: for every signed UnverifiedTransaction, whatever its access list holds
\* (no entry, one, many; entries with or without slots), decoding the body of
\* its encoding returns the same entries in the same order, each with the same
\* address and the same slots in the same order, and all other fields unchanged.
C3_AccessListRoundTrip ==
    (op = "utx_decode" /\ arg.signature.some)
        => /\ res.ok
           /\ Len(res.val.unsigned.access_list) = Len(arg.unsigned.access_list)
           /\ \A i \in 1..Len(arg.unsigned.access_list) :
                 /\ res.val.unsigned.access_list[i].address
                        = arg.unsigned.access_list[i].address
                 /\ res.val.unsigned.access_list[i].slots
                        = arg.unsigned.access_list[i].slots
           /\ res.val.unsigned = arg.unsigned
           /\ res.val.chain_id = arg.chain_id
           /\ res.val.signature = arg.signature

\* C3 witness: a signed transaction whose three entries differ (no slot, then
\* two distinct slots in one order, then in the other) came back from decode
C3_Witness ==
    /\ op = "utx_decode"
    /\ arg.signature.some
    /\ Len(arg.unsigned.access_list) = 3
    /\ arg.unsigned.access_list[1].slots = <<>>
    /\ arg.unsigned.access_list[2].slots = <<H256(0), H256(170)>>
    /\ arg.unsigned.access_list[3].slots = <<H256(170), H256(0)>>
    /\ res.ok
    /\ res.val.unsigned.access_list = arg.unsigned.access_list

\* the items rlp_bytes has to emit for utx, each assembled on its own
ExpectedItems(utx) ==
    [i \in 1..8 |-> encode_value(head_fields(utx)[i])]
    \o << WrapList([k \in 1..Len(utx.unsigned.access_list) |->
              WrapList(<< encode_value(utx.unsigned.access_list[k].address),
                          WrapList([j \in 1..Len(utx.unsigned.access_list[k].slots) |->
                              encode_value(utx.unsigned.access_list[k].slots[j])]) >>)]) >>
    \o (IF utx.signature.some
        THEN << encode_value(uint_bytes(utx.signature.v.standard_v)),
                encode_value(utx.signature.v.r),
                encode_value(utx.signature.v.s) >>
        ELSE <<>>)

\* C4: rlp_bytes of an UnverifiedTransaction emits exactly one leading byte
\* 0x02 followed by one list whose items are, in order, chain id, nonce, max
\* priority fee, gas price, gas limit, action, value, data, access list (a list
\* of [address, list-of-slots] pairs), then recovery id, r, s only when a
\* signature is present; the declared length is 12 with a signature and 9
\* without, and the items appended equal the declared length (the stream
\* finishes, never panics), whatever the access list contains.
C4_EncodingLayout ==
    op = "utx_rlp_bytes"
        => /\ res.ok
           /\ wire[1] = 2
           /\ Tail(wire) = WrapList(ExpectedItems(arg))
           /\ Len(ExpectedItems(arg)) = (IF arg.signature.some THEN 12 ELSE 9)
           /\ item_count(Tail(wire)) = Ok(IF arg.signature.some THEN 12 ELSE 9)

\* C4 witness: an unsigned transaction with a two-entry access list was encoded
C4_Witness ==
    /\ op = "utx_rlp_bytes"
    /\ ~arg.signature.some
    /\ Len(arg.unsigned.access_list) = 2
    /\ Len(arg.unsigned.access_list[2].slots) = 2
    /\ res.ok
    /\ Len(items_of(Tail(wire))) = 9

\* C5 as stated: the encoding of a SignedTransaction starts with the
\* discriminator byte 0x02, followed by the list of the transaction fields.
C5_SignedDiscriminator ==
    op = "stx_rlp_bytes"
        => /\ res.ok
           /\ wire[1] = 2
           /\ Tail(wire) = WrapList(ExpectedItems(arg.transaction))

\* C5 amended: the encoding of a SignedTransaction carries no discriminator:
\* it is one 3-item list [transaction field list, sender, public key option],
\* so its first byte is a list header (>= 0xc0) and never 0x02; the byte 0x02
\* leads only the rlp_bytes of an UnverifiedTransaction.
C5_SignedIsPlainList ==
    /\ op = "stx_rlp_bytes"
          => /\ res.ok
             /\ wire[1] >= 192
             /\ wire = WrapList(<< WrapList(ExpectedItems(arg.transaction)),
                                   encode_value(arg.sender),
                                   IF arg.public.some
                                   THEN WrapList(<<encode_value(arg.public.v)>>)
                                   ELSE WrapList(<<>>) >>)
    /\ op = "utx_rlp_bytes" => (res.ok /\ wire[1] = 2)

\* C5 witness: a SignedTransaction with a public key was encoded
C5_Witness ==
    /\ op = "stx_rlp_bytes"
    /\ arg.public.some
    /\ arg.transaction.signature.some
    /\ res.ok
    /\ wire[1] >= 192

\* C6: decode fails with the wrong-field-count error for every outer list
\* whose item count is not 12 and returns no transaction; the count is checked
\* before any field is decoded, so a list with a wrong count and a field that
\* does not decode still fails with the wrong-field-count error.
C6_WrongFieldCount ==
    /\ (op = "raw_decode" /\ arg.n # 12)
          => (~res.ok /\ res.err = "RlpIncorrectListLen" /\ res.val = <<>>)
    /\ (op = "utx_decode" /\ ~arg.signature.some)
          => (~res.ok /\ res.err = "RlpIncorrectListLen" /\ res.val = <<>>)

\* C6 witness: an 11-item list whose nonce does not decode was refused for
\* its count
C6_Witness ==
    /\ op = "raw_decode"
    /\ arg.n = 11
    /\ arg.bad = 2
    /\ ~res.ok
    /\ res.err = "RlpIncorrectListLen"

\* the crafted access list holds an entry whose item count is not 2
HasMiscountedEntry(c) ==
    c.bad # 9 /\ \E k \in 1..Len(c.entries) : c.entries[k] \in {1, 3}

\* the first entry that is not a well-formed 2-item entry is a miscounted one
FirstBadEntryIsMiscounted(c) ==
    c.bad # 9 /\ \E k \in 1..Len(c.entries) :
        /\ c.entries[k] \in {1, 3}
        /\ \A j \in 1..(k - 1) : c.entries[j] = 2

\* C7 as stated: decoding a 12-item list whose access list holds an entry
\* with an item count other than 2 fails with the access-list-entry error,
\* whatever the position of the entry; no transaction is returned.
C7_BadEntryAlwaysEntryError ==
    (op = "raw_decode" /\ arg.n = 12 /\ HasMiscountedEntry(arg))
        => (~res.ok /\ res.err = "Custom(Unknown access list length)")

\* C7 amended: decoding a 12-item list whose access list holds an entry with
\* an item count other than 2 always fails and returns no transaction.  The
\* error is the access-list-entry error when items 0..7 decode and every
\* earlier entry is a well-formed 2-item entry, whatever the position of the
\* entry and whatever items 9..11 hold; otherwise it is the error of the first
\* item or entry that does not decode.
C7_BadEntryRejected ==
    /\ (op = "raw_decode" /\ arg.n = 12 /\ HasMiscountedEntry(arg))
          => (~res.ok /\ res.val = <<>>)
    /\ (op = "raw_decode" /\ arg.n = 12 /\ arg.bad \notin 1..8
          /\ FirstBadEntryIsMiscounted(arg))
          => (~res.ok /\ res.err = "Custom(Unknown access list length)")
    /\ (op = "raw_decode" /\ arg.n = 12 /\ arg.bad \in 1..8 /\ HasMiscountedEntry(arg))
          => (~res.ok /\ res.err = "RlpExpectedToBeData")

\* C7 witness: two well-formed entries, then a 3-item entry, were refused
C7_Witness ==
    /\ op = "raw_decode"
    /\ arg.n = 12
    /\ arg.bad = 0
    /\ arg.entries = <<2, 2, 3>>
    /\ ~res.ok
    /\ res.err = "Custom(Unknown access list length)"

\* C8: every UnverifiedTransaction a successful decode returns has the hash
\* hash() computes from the decoded fields and chain id: it is never the
\* placeholder default, never a part of the input (an appended hash item is
\* refused with the list), and it depends on the decoded fields alone.
C8_HashRecomputed ==
    /\ (op \in {"utx_decode", "raw_decode"} /\ res.ok)
          => /\ res.val.hash # H256_default
             /\ res.val.hash = hash([res.val EXCEPT !.hash = H256_default]).hash
             /\ res.val.hash =
                    digest(UnverifiedTransaction_rlp_bytes(
                        [res.val EXCEPT !.signature = NoSignature]).val)
    /\ (op = "stx_decode" /\ res.ok)
          => /\ res.val.transaction.hash # H256_default
             /\ Hashed(res.val.transaction)
    /\ (op = "raw_decode" /\ arg.n > 12) => ~res.ok

\* C8 witness: a transaction encoded with the placeholder hash came back
\* from decode with the computed one
C8_Witness ==
    /\ op = "utx_decode"
    /\ arg.hash = H256_default
    /\ res.ok
    /\ res.val.hash.keccak
    /\ res.val.hash = hash(arg).hash

(***************************************************************************)
(* Properties of the request-value decoders (specification SpecJson)       *)
(***************************************************************************)
AllHex(ds) == \A i \in 1..Len(ds) : ds[i] \in DOMAIN HexDigit

RECURSIVE StripZeros(_)
StripZeros(ds) == IF ds # <<>> /\ ds[1] = 0 THEN StripZeros(Tail(ds)) ELSE ds

\* the number a string of hexadecimal digits writes
HexValue(ds) == StripZeros([i \in 1..Len(ds) |-> HexDigit[ds[i]]])

FitsU64(ds) == Len(HexValue(ds)) <= U64_HEX_DIGITS

InvalidBlockNumberErrors ==
    { "Invalid block number: cannot parse integer from empty string",
      "Invalid block number: invalid digit found in string",
      "Invalid block number: number too large to fit in target type" }

\* C9: the BlockId decoder maps "latest" to Latest and a string starting with
\* "0x" whose remainder is valid hexadecimal fitting in 64 bits to Num of that
\* value ("0x10" gives Num(16)); every string that does not start with "0x"
\* and is not "latest" fails with the missing-0x-prefix error; a "0x" string
\* with empty, non-hex or overflowing digits fails with an
\* invalid-block-number error.
C9_BlockIdStrings ==
    (op = "BlockId" /\ arg.t = "string")
        => LET s    == arg.s
               rest == SubSeq(s, 3, Len(s))
           IN /\ s = <<"l", "a", "t", "e", "s", "t">>
                    => (res.ok /\ res.val = BlockId_Latest)
              /\ (starts_with_0x(s) /\ rest # <<>> /\ AllHex(rest) /\ FitsU64(rest))
                    => (res.ok /\ res.val = BlockId_Num(HexValue(rest)))
              /\ s = <<"0", "x", "1", "0">>
                    => (res.ok /\ res.val = BlockId_Num(U64(16)))
              /\ (~starts_with_0x(s) /\ s # <<"l", "a", "t", "e", "s", "t">>)
                    => (~res.ok /\ res.err = "Invalid block number: missing 0x prefix")
              /\ (starts_with_0x(s) /\ (rest = <<>> \/ ~AllHex(rest) \/ ~FitsU64(rest)))
                    => (~res.ok /\ res.err \in InvalidBlockNumberErrors)

\* the object is {"blockHash": <hash>} with or without a boolean
\* requireCanonical member, in either order
IsBlockHashObject(kv) ==
    /\ Len(kv) \in {1, 2}
    /\ \E i \in 1..Len(kv) :
          /\ kv[i].k = "blockHash"
          /\ H256_deserialize(kv[i].v).ok
          /\ \A j \in (1..Len(kv)) \ {i} :
                kv[j].k = "requireCanonical" /\ kv[j].v.t = "bool"

BlockHashOf(kv) ==
    H256_deserialize(kv[CHOOSE i \in 1..Len(kv) : kv[i].k = "blockHash"].v).val

\* C10: the BlockId decoder accepts a JSON object with a blockHash field, with
\* or without a requireCanonical boolean, and yields Hash of that block hash.
C10_BlockIdHashObject ==
    (op = "BlockId" /\ arg.t = "object" /\ IsBlockHashObject(arg.kv))
        => (res.ok /\ res.val = BlockId_Hash(BlockHashOf(arg.kv)))

\* the value of the requireCanonical member, false when there is none
RequireCanonicalOf(kv) ==
    IF \E i \in 1..Len(kv) : kv[i].k = "requireCanonical"
    THEN kv[CHOOSE i \in 1..Len(kv) : kv[i].k = "requireCanonical"].v.b
    ELSE FALSE

\* C11: the Web3BlockNumber decoder maps "latest" to Latest, "pending" to
\* Pending and a "0x" string of hexadecimal digits (fitting 64 bits) to Num of
\* that value; an object {"blockHash": h} with or without a boolean
\* requireCanonical member, in either order, gives Hash{h, require_canonical}
\* with require_canonical the member's value, false when absent; an object
\* that is empty or holds only requireCanonical fails with "Invalid input".
C11_Web3BlockNumber ==
    op = "Web3BlockNumber"
        => /\ arg = JStr(<<"l", "a", "t", "e", "s", "t">>)
                 => (res.ok /\ res.val = Web3BlockNumber_Latest)
           /\ arg = JStr(<<"p", "e", "n", "d", "i", "n", "g">>)
                 => (res.ok /\ res.val = Web3BlockNumber_Pending)
           /\ (/\ arg.t = "string"
               /\ starts_with_0x(arg.s)
               /\ Len(arg.s) > 2
               /\ AllHex(SubSeq(arg.s, 3, Len(arg.s)))
               /\ FitsU64(SubSeq(arg.s, 3, Len(arg.s))))
                 => (/\ res.ok
                     /\ res.val = Web3BlockNumber_Num(HexValue(SubSeq(arg.s, 3, Len(arg.s)))))
           /\ (arg.t = "object" /\ IsBlockHashObject(arg.kv))
                 => (/\ res.ok
                     /\ res.val = Web3BlockNumber_Hash(BlockHashOf(arg.kv),
                                                       RequireCanonicalOf(arg.kv)))
           /\ (/\ arg.t = "object"
               /\ \A i \in 1..Len(arg.kv) :
                     arg.kv[i].k = "requireCanonical" /\ arg.kv[i].v.t = "bool")
                 => (~res.ok /\ res.err = "Invalid input")

\* C11 witness: {"requireCanonical": true, "blockHash": h} was decoded to
\* Hash{h, true}, the flag read before the hash
C11_Witness ==
    /\ op = "Web3BlockNumber"
    /\ arg.t = "object"
    /\ Len(arg.kv) = 2
    /\ arg.kv[1].k = "requireCanonical"
    /\ arg.kv[2].k = "blockHash"
    /\ res.ok
    /\ res.val.kind = "Hash"
    /\ res.val.require_canonical
    /\ res.val.hash = Fill(H256_LEN, 170)

\* a "0x" string of hexadecimal digits that fit 64 bits
IsBlockNumberString(v) ==
    /\ v.t = "string"
    /\ starts_with_0x(v.s)
    /\ Len(v.s) > 2
    /\ AllHex(SubSeq(v.s, 3, Len(v.s)))
    /\ FitsU64(SubSeq(v.s, 3, Len(v.s)))

\* the keys each visit_map has an arm for
RecognizedKeys(decoder) ==
    IF decoder = "BlockId" THEN {"blockNumber"}
    ELSE {"Web3BlockNumber", "blockHash", "requireCanonical"}

\* a member with a recognized key and a value of that key's form
IsValidMember(m) ==
    \/ m.k \in {"blockNumber", "Web3BlockNumber"} /\ IsBlockNumberString(m.v)
    \/ m.k = "blockHash" /\ H256_deserialize(m.v).ok
    \/ m.k = "requireCanonical" /\ m.v.t = "bool"

\* C12: for the BlockId and the Web3BlockNumber decoder, an object with a key
\* outside the decoder's recognized keys is rejected with the unknown-key
\* error wherever that key stands among valid members, also behind a valid
\* block-number member.
C12_UnknownKeyAnyPosition ==
    (/\ op \in {"BlockId", "Web3BlockNumber"}
     /\ arg.t = "object"
     /\ \E i \in 1..Len(arg.kv) :
           /\ arg.kv[i].k \notin RecognizedKeys(op)
           /\ \A j \in 1..(i - 1) :
                 arg.kv[j].k \in RecognizedKeys(op) /\ IsValidMember(arg.kv[j]))
        => (~res.ok /\ res.err = "Unknown key")

AllDec(ds) == \A i \in 1..Len(ds) : ds[i] \in DOMAIN DecDigit

RECURSIVE StripZeroChars(_)
StripZeroChars(ds) == IF ds # <<>> /\ ds[1] = "0" THEN StripZeroChars(Tail(ds)) ELSE ds

\* the decimal digits of 2^64 - 1
UsizeMaxDecimal ==
    << 1, 8, 4, 4, 6, 7, 4, 4, 0, 7, 3, 7, 0, 9, 5, 5, 1, 6, 1, 5 >>

\* the decimal digit string writes a number no larger than 2^64 - 1
FitsUsizeDecimal(ds) ==
    LET t == StripZeroChars(ds)
        d == [i \in 1..Len(t) |-> DecDigit[t[i]]]
    IN \/ Len(t) < Len(UsizeMaxDecimal)
       \/ /\ Len(t) = Len(UsizeMaxDecimal)
          /\ \/ d = UsizeMaxDecimal
             \/ \E i \in 1..Len(t) :
                   /\ d[i] < UsizeMaxDecimal[i]
                   /\ \A j \in 1..(i - 1) : d[j] = UsizeMaxDecimal[j]

RECURSIVE DecimalValue(_)
\* the natural number a short string of decimal digits writes
DecimalValue(ds) ==
    IF ds = <<>> THEN 0
    ELSE DecimalValue(SubSeq(ds, 1, Len(ds) - 1)) * 10 + DecDigit[ds[Len(ds)]]

\* the errors of an index that is not read: the three parse errors of
\* visit_str, and the error of a JSON shape the visitor has no method for
InvalidIndexErrors ==
    { "Invalid index: cannot parse integer from empty string",
      "Invalid index: invalid digit found in string",
      "Invalid index: number too large to fit in target type",
      "invalid type" }

\* the string spells an index: "0x" and hexadecimal digits, or decimal digits
IsHexIndex(s) ==
    /\ starts_with_0x(s)
    /\ Len(s) > 2
    /\ AllHex(SubSeq(s, 3, Len(s)))
    /\ FitsU64(SubSeq(s, 3, Len(s)))

IsDecimalIndex(s) == ~starts_with_0x(s) /\ s # <<>> /\ AllDec(s) /\ FitsUsizeDecimal(s)

\* C13: the Index decoder maps "0x" followed by hexadecimal digits to their
\* value and a string of decimal digits to its decimal value (so "0x10" and
\* "16" give the same Index); every other input (a string that is neither,
\* an empty digit string, a number, object, array, bool or null) fails with
\* an invalid-index error and yields no Index.
C13_IndexDecoder ==
    op = "Index"
        => /\ (arg.t = "string" /\ IsHexIndex(arg.s))
                 => (res.ok /\ res.val = Index(HexValue(SubSeq(arg.s, 3, Len(arg.s)))))
           /\ (arg.t = "string" /\ IsDecimalIndex(arg.s))
                 => /\ res.ok
                    /\ Len(arg.s) <= 9 => res.val = Index(U64(DecimalValue(arg.s)))
           /\ ~(arg.t = "string" /\ (IsHexIndex(arg.s) \/ IsDecimalIndex(arg.s)))
                 => (~res.ok /\ res.err \in InvalidIndexErrors)

\* C14: the VariadicValue<T> decoder returns Null for JSON null; for any
\* other value it returns Single(t) whenever the value parses as a scalar T,
\* even when the value also parses as an array of T; it returns Multiple(list),
\* the elements in input order, only when the scalar parse fails and the array
\* parse succeeds; it fails with the invalid-variadic error exactly when both
\* parses fail.
C14_VariadicValue ==
    op = "VariadicValue"
        => /\ arg.v = JNull => (res.ok /\ res.val = VariadicValue_Null)
           /\ (arg.v # JNull /\ from_value(arg.T, arg.v).ok)
                 => (/\ res.ok
                     /\ res.val = VariadicValue_Single(from_value(arg.T, arg.v).val))
           /\ (res.ok /\ res.val.kind = "Multiple")
                 => (/\ arg.v # JNull
                     /\ ~from_value(arg.T, arg.v).ok
                     /\ from_value_Vec(arg.T, arg.v).ok
                     /\ Len(res.val.v) = Len(arg.v.a)
                     /\ \A i \in 1..Len(arg.v.a) :
                           res.val.v[i] = from_value(arg.T, arg.v.a[i]).val)
           /\ (arg.v # JNull /\ ~from_value(arg.T, arg.v).ok
                             /\ from_value_Vec(arg.T, arg.v).ok)
                 => (res.ok /\ res.val.kind = "Multiple")
           /\ ~res.ok <=> (/\ arg.v # JNull
                           /\ ~from_value(arg.T, arg.v).ok
                           /\ ~from_value_Vec(arg.T, arg.v).ok)
           /\ ~res.ok => res.err = "Invalid variadic value type"
           /\ (arg.T = "H256" /\ arg.v = JStr(HashStr("a")))
                 => res.val = VariadicValue_Single(Fill(H256_LEN, 170))
           /\ (arg.T = "H256" /\ arg.v = JArr(<<JStr(HashStr("b")), JStr(HashStr("a"))>>))
                 => res.val = VariadicValue_Multiple(<<Fill(H256_LEN, 187),
                                                       Fill(H256_LEN, 170)>>)
           /\ (arg.T = "Vec<H256>" /\ arg.v = JArr(<<>>))
                 => res.val = VariadicValue_Single(<<>>)

\* C14 witness: a value that parses both as T and as an array of T was
\* decoded to Single
C14_Witness ==
    /\ op = "VariadicValue"
    /\ arg.v # JNull
    /\ from_value(arg.T, arg.v).ok
    /\ from_value_Vec(arg.T, arg.v).ok
    /\ res.ok
    /\ res.val.kind = "Single"

\* C15: every request struct that is an RPC parameter (Web3CallRequest,
\* Web3Filter, ChangeWeb3Filter, Filter) is parsed in strict mode: an object
\* with a key outside the struct's fields is rejected, never accepted with
\* the key ignored; a filter object is accepted only with keys among
\* fromBlock, toBlock, blockHash, address, topics and limit.
C15_StrictMode ==
    op = "struct"
        => /\ (\E i \in 1..Len(arg.kv) : arg.kv[i].k \notin StructOf(arg.name).fields)
                 => ~res.ok
           /\ (arg.name \in {"Web3Filter", "ChangeWeb3Filter", "Filter"} /\ res.ok)
                 => \A i \in 1..Len(arg.kv) : arg.kv[i].k \in FilterKeys

\* C16: in ChangeWeb3Filter::try_into, whenever the request has a block_hash
\* h, from_block and to_block of the result are both Hash(h), whatever
\* fromBlock and toBlock were supplied or omitted.
C16_BlockHashOverrides ==
    (op = "try_into" /\ arg.block_hash.some)
        => /\ res.val.from_block = BlockId_Hash(arg.block_hash.v)
           /\ res.val.to_block = BlockId_Hash(arg.block_hash.v)

\* C16 witness: a request with a block hash, a fromBlock naming another hash
\* and a numeric toBlock was canonicalized to Hash(block hash) twice
C16_Witness ==
    /\ op = "try_into"
    /\ arg.block_hash.some
    /\ arg.from_block.some
    /\ arg.from_block.v.kind = "Hash"
    /\ arg.from_block.v.hash # arg.block_hash.v
    /\ arg.to_block.some
    /\ arg.to_block.v.kind = "Num"
    /\ res.val.from_block = BlockId_Hash(arg.block_hash.v)
    /\ res.val.to_block = res.val.from_block

\* the canonical identifier the claim gives for one supplied or omitted bound
CanonicalBound(field) ==
    CASE ~field.some -> BlockId_Latest
      [] field.some /\ field.v.kind = "Hash" -> BlockId_Hash(field.v.hash)
      [] field.some /\ field.v.kind = "Num" -> BlockId_Num(field.v.num)
      [] field.some /\ field.v.kind \in {"Latest", "Pending"} -> BlockId_Latest

\* C17: in ChangeWeb3Filter::try_into, without a block_hash, from_block and
\* to_block are mapped each on its own: Hash{hash, ..} gives Hash(hash)
\* whatever require_canonical is, Num(n) gives Num(n), Latest and Pending give
\* Latest, an omitted field gives Latest.
C17_BoundsMapped ==
    (op = "try_into" /\ ~arg.block_hash.some)
        => /\ res.val.from_block = CanonicalBound(arg.from_block)
           /\ res.val.to_block = CanonicalBound(arg.to_block)

\* C17 witness: without a block hash, a non-canonical hash fromBlock and a
\* pending toBlock were mapped to Hash(hash) and Latest
C17_Witness ==
    /\ op = "try_into"
    /\ ~arg.block_hash.some
    /\ arg.from_block.some
    /\ arg.from_block.v.kind = "Hash"
    /\ ~arg.from_block.v.require_canonical
    /\ arg.to_block.some
    /\ arg.to_block.v.kind = "Pending"
    /\ res.val.from_block = BlockId_Hash(arg.from_block.v.hash)
    /\ res.val.to_block = BlockId_Latest

\* the elements of a list
Elements(list) == {list[i] : i \in 1..Len(list)}

\* C18: in ChangeWeb3Filter::try_into, the address filter of the result is
\* absent when the request's address is omitted or Null, is the one-element
\* collection of a for Single(a), and for Multiple(list) holds exactly the
\* addresses of list (lists of the same addresses give the same set).
C18_AddressFilter ==
    op = "try_into"
        => /\ (~arg.address.some \/ arg.address.v.kind = "Null")
                 => ~res.val.address.some
           /\ (arg.address.some /\ arg.address.v.kind = "Single")
                 => (res.val.address.some /\ res.val.address.v = <<arg.address.v.v>>)
           /\ (arg.address.some /\ arg.address.v.kind = "Multiple")
                 => (/\ res.val.address.some
                     /\ Elements(res.val.address.v) = Elements(arg.address.v.v)
                     /\ res.val.address.v = arg.address.v.v)

\* C18 witness: a list of two different addresses was canonicalized to a
\* filter on exactly those two
C18_Witness ==
    /\ op = "try_into"
    /\ arg.address.some
    /\ arg.address.v.kind = "Multiple"
    /\ Len(arg.address.v.v) = 2
    /\ arg.address.v.v[1] # arg.address.v.v[2]
    /\ res.val.address.some
    /\ Elements(res.val.address.v) = {Address(170), Address(204)}

\* the slot the claim gives for one supplied topic entry
SlotOf(entry) ==
    CASE entry.kind = "Null" -> None
      [] entry.kind = "Single" -> Some(<<entry.v>>)
      [] entry.kind = "Multiple" -> Some(entry.v)

\* C19: the topics of the canonicalized Filter have exactly 4 slots; slot i is
\* derived from the i-th supplied entry (Null gives none, Single(t) gives {t},
\* Multiple(ts) gives ts), a slot with no supplied entry is none, and entries
\* beyond the fourth do not influence the result.
C19_TopicSlots ==
    op = "try_into"
        => /\ Len(res.val.topics) = 4
           /\ \A i \in 1..4 :
                 res.val.topics[i] =
                     IF arg.topics.some /\ i <= Len(arg.topics.v)
                     THEN SlotOf(arg.topics.v[i])
                     ELSE None
           /\ (arg.topics.some /\ Len(arg.topics.v) > 4)
                 => res.val.topics = topics_filter(Some(SubSeq(arg.topics.v, 1, 4)))

\* C19 witness: six supplied entries, the fifth and sixth not Null, gave four
\* slots
C19_Witness ==
    /\ op = "try_into"
    /\ arg.topics.some
    /\ Len(arg.topics.v) = 6
    /\ arg.topics.v[5].kind = "Single"
    /\ arg.topics.v[6].kind = "Multiple"
    /\ arg.topics.v[1].kind = "Null"
    /\ arg.topics.v[2].kind = "Multiple"
    /\ Len(res.val.topics) = 4
    /\ res.val.topics[1] = None
    /\ res.val.topics[2] = Some(arg.topics.v[2].v)

\* the text of a hash in full: "0x" and its 64 lowercase hexadecimal digits
FullHashText(h) ==
    <<"0", "x">> \o [i \in 1..(2 * H256_LEN) |->
                       IF i % 2 = 1 THEN LowerHexChar[(h[(i + 1) \div 2] \div 16) + 1]
                       ELSE LowerHexChar[(h[i \div 2] % 16) + 1]]

\* C20: serializing a BlockId renders Latest as the string "latest", Num(n)
\* as "0x" followed by the lowercase hexadecimal digits of n without leading
\* zeros, and Hash(h) as an object that carries the hash.
C20_BlockIdSerialize ==
    op = "BlockId_serialize"
        => /\ arg.kind = "Latest"
                 => res.val = JStr(<<"l", "a", "t", "e", "s", "t">>)
           /\ arg.kind = "Num"
                 => /\ res.val.t = "string"
                    /\ starts_with_0x(res.val.s)
                    /\ Len(res.val.s) > 2
                    /\ \A i \in 3..Len(res.val.s) :
                          res.val.s[i] \in {LowerHexChar[k] : k \in 1..16}
                    /\ (Len(res.val.s) > 3 => res.val.s[3] # "0")
                    /\ HexValue(SubSeq(res.val.s, 3, Len(res.val.s))) = arg.num
           /\ arg.kind = "Hash"
                 => /\ res.val.t = "object"
                    /\ \E i \in 1..Len(res.val.kv) :
                          res.val.kv[i].v = JStr(FullHashText(arg.hash))

\* C21: the BlockId serializer is symmetric with the BlockId decoder: for
\* every BlockId b (Num, Latest and Hash), decoding the serialized form of b
\* succeeds and yields b.
C21_BlockIdSymmetric ==
    op = "BlockId_round_trip" => (res.ok /\ res.val = arg)

\* C23: Web3Transaction::create copies each transaction-derived field of the
\* view from the same-named field of the signed transaction: nonce, value,
\* gas_price, max_priority_fee_per_gas, access_list and chain_id; standard_v,
\* r and s equal the signature components when a signature is present and
\* are zero when it is absent; the type is always 2.
C23_ViewCopiesFields ==
    op = "Web3Transaction_create"
        => LET tx == arg.stx.transaction
               view == res.val
           IN /\ view.nonece = tx.unsigned.nonce
              /\ view.value = tx.unsigned.value
              /\ view.gas_price = tx.unsigned.gas_price
              /\ view.max_priority_fee_per_gas = tx.unsigned.max_priority_fee_per_gas
              /\ view.access_list = Some(tx.unsigned.access_list)
              /\ view.chain_id = Some(tx.chain_id)
              /\ view.type_ = Some(2)
              /\ tx.signature.some
                    => /\ view.standard_v = Some(tx.signature.v.standard_v)
                       /\ view.r = U256_from_slice(tx.signature.v.r)
                       /\ view.s = U256_from_slice(tx.signature.v.s)
              /\ ~tx.signature.some
                    => /\ view.standard_v = Some(0)
                       /\ view.r = <<>>
                       /\ view.s = <<>>

\* the fields of a Filter
FilterFields == {"from_block", "to_block", "address", "topics", "limit"}

\* C24: ChangeWeb3Filter::try_into is total and leaves the unrelated fields
\* untouched: for every ChangeWeb3Filter it returns a Filter, the result's
\* limit equals the request's limit, and the presence or absence of
\* block_hash changes only from_block and to_block, never address, topics or
\* limit.
C24_TotalAndFramed ==
    op = "try_into"
        => /\ res.ok
           /\ DOMAIN res.val = FilterFields
           /\ res.val.from_block.kind \in {"Num", "Hash", "Latest"}
           /\ res.val.to_block.kind \in {"Num", "Hash", "Latest"}
           /\ Len(res.val.topics) = TOPIC_SLOTS
           /\ res.val.limit = arg.limit
           /\ \A h \in BlockHashFields :
                 LET other == ChangeWeb3Filter_try_into([arg EXCEPT !.block_hash = h])
                 IN /\ other.address = res.val.address
                    /\ other.topics = res.val.topics
                    /\ other.limit = res.val.limit

\* C24 witness: a request with a block hash, a limit, an address and topics
\* was canonicalized, and its limit came through
C24_Witness ==
    /\ op = "try_into"
    /\ arg.block_hash.some
    /\ arg.limit.some
    /\ arg.address.some
    /\ arg.topics.some
    /\ res.val.from_block.kind = "Hash"
    /\ res.val.limit = arg.limit

\* C25: every UnverifiedTransaction returned by a successful decode has a
\* signature present, built from list positions 9, 10 and 11 (recovery id, r,
\* s); decode never returns a transaction whose signature is absent.
C25_DecodedIsSigned ==
    (op \in {"utx_decode", "raw_decode"} /\ res.ok)
        => LET from_items(it, sig) ==
                   /\ Len(it) = 12
                   /\ decode_u8(it[10]) = Ok(sig.standard_v)
                   /\ decode_fixed(it[11], H256_LEN) = Ok(sig.r)
                   /\ decode_fixed(it[12], H256_LEN) = Ok(sig.s)
           IN /\ res.val.signature.some
              /\ from_items(items_of(Tail(wire)), res.val.signature.v)

\* C25 witness: a transaction signed with recovery id 1 and different r and s
\* has been decoded from its encoding
C25_Witness ==
    /\ op = "utx_decode"
    /\ res.ok
    /\ res.val.signature = Some([standard_v |-> 1, r |-> H256(51), s |-> H256(85)])

\* the string form the claim speaks of: the name of a built-in tag, the text
\* of a custom one
StringForm(tag) ==
    CASE tag.kind = "Consensus" -> "consensus"
      [] tag.kind = "AlwaysAllow" -> "always_allow"
      [] tag.kind = "Ban" -> "ban"
      [] tag.kind = "Custom" -> tag.s

\* C26: PeerTag equality and hashing depend only on the tag's string form:
\* any two Ban tags are equal whatever their until timestamps (so ban_key()
\* equals every Ban tag), equal tags always hash equally, and
\* PeerTag::custom(s) returns None exactly when s is "consensus",
\* "always_allow" or "ban", so a tag obtained from custom never equals
\* Consensus, AlwaysAllow or a Ban tag.
C26_PeerTagIdentity ==
    /\ op = "PeerTag_eq"
          => /\ res.val.eq = (StringForm(arg[1]) = StringForm(arg[2]))
             /\ (arg[1].kind = "Ban" /\ arg[2].kind = "Ban") => res.val.eq
             /\ (arg[1] = PeerTag_ban_key /\ arg[2].kind = "Ban") => res.val.eq
             /\ res.val.eq => res.val.hash_self = res.val.hash_other
             /\ (StringForm(arg[1]) = StringForm(arg[2]))
                   => res.val.hash_self = res.val.hash_other
    /\ op = "PeerTag_custom"
          => /\ (~res.val.some) = (arg \in {"consensus", "always_allow", "ban"})
             /\ res.val.some
                   => \A t \in {x \in PeerTags : x.kind # "Custom"} :
                         ~PeerTag_eq(res.val.v, t) /\ ~PeerTag_eq(t, res.val.v)

\* C26 witness: two bans with different timestamps were compared, found equal
\* and hashed alike
C26_Witness ==
    /\ op = "PeerTag_eq"
    /\ arg[1].kind = "Ban"
    /\ arg[2].kind = "Ban"
    /\ arg[1].until # arg[2].until
    /\ res.val.eq
    /\ res.val.hash_self = res.val.hash_other

\* what a call returns when it runs alone: the whole function on the input
RunAlone(c) ==
    IF c.kind = "decode" THEN UnverifiedTransaction_decode(c.input)
    ELSE IF c.kind = "deserialize" THEN Web3BlockNumber_deserialize(c.input)
    ELSE Ok(ChangeWeb3Filter_try_into(c.input))

\* C22: transaction decode, request-value decoding and filter
\* canonicalization share no mutable state: under any interleaving of
\* concurrent calls, each call returns the result it returns when run alone
\* on the same input, and that result depends only on the call's own input.
C22_CallsIndependent ==
    /\ \A t \in Tasks : op[t] = "done" => res[t] = RunAlone(arg[t])
    /\ \A t \in Tasks, u \in Tasks :
          (op[t] = "done" /\ op[u] = "done" /\ arg[t] = arg[u]) => res[t] = res[u]

\* C22 witness: a decode that pushed two access-list entries and a
\* canonicalization, run by two tasks, have both returned
C22_Witness ==
    \E t \in Tasks, u \in Tasks :
        /\ op[t] = "done"
        /\ arg[t].kind = "decode"
        /\ res[t].ok
        /\ Len(res[t].val.unsigned.access_list) = 2
        /\ wire[t].i = 2
        /\ op[u] = "done"
        /\ arg[u].kind = "try_into"
        /\ Len(res[u].val.topics) = TOPIC_SLOTS

====
